---- MODULE Spec2Model ----
(***************************************************************************)
(* LoggedIn: ingestion of Windows-style authentication events and the      *)
(* detection engine over them.                                             *)
(*                                                                         *)
(* Two storage/analyser pairs exist in the repository:                     *)
(*   backend = "memory" : Program/App/app.py  LogStorage + LogAnalyser     *)
(*   backend = "sqlite" : Logs/logstorage.py  LogStorage +                 *)
(*                        Program/Logs/loganalyser.py LogAnalyser          *)
(* A process constructs one of them; the variable backend records which.   *)
(*                                                                         *)
(* Python values are modelled as follows.                                  *)
(*   str       a tuple of one-character strings (so that lower(),          *)
(*             substring tests and regular expressions are computed)       *)
(*   dict      a function whose DOMAIN is the set of keys present          *)
(*   None      the tuple <<"None">> where a str is expected, the string    *)
(*             "None" where an EventID or a return value is expected       *)
(*   wire time a record [fmt, day, hh, mm, ss]: fmt is the shape of the    *)
(*             token ("compact" = YYYYMMDDTHHMMSSZ, "iso" =                *)
(*             YYYY-MM-DDTHH:MM:SS, "empty" = ''), the numbers are the     *)
(*             digits written in it; all tokens are in January 2023        *)
(*   datetime  a record [day, hour, minute, second]                        *)
(*   exception a record [exc |-> <class name>] as the result of the call   *)
(***************************************************************************)
EXTENDS Integers, Sequences, FiniteSets, TLC

VARIABLES
    backend,      \* which LogStorage/LogAnalyser pair the process built
    logs,         \* app.py LogStorage.logs: list of parsed dicts
    rows,         \* logstorage.py: the rows of table logs, in rowid order
    log_history,  \* logstorage.py LogStorage.log_history
    now,          \* the wall clock, as a datetime
    hashseed,     \* per-process str hash randomisation: the order in which
                  \* a set of str is iterated (a ranking of the names)
    splunk,       \* the alert sink handed to the core (a SplunkIntegration
                  \* object of either class, or None)
    stdout,       \* the lines printed so far in this pass
    hec_calls,    \* the events handed to send_to_hec so far in this pass
    pc,           \* the position of a run of main()
    handles,      \* the files and stores that are open
    call,         \* the operation invoked last, with its arguments
    result        \* what that operation returned (or raised)

vars == <<backend, logs, rows, log_history, now, hashseed, splunk, stdout,
          hec_calls, pc, handles, call, result>>

-----------------------------------------------------------------------------
(* Bounds of the model                                                     *)

MaxLogs == 3          \* records held by the in-memory store
MaxRows == 2          \* rows held by the SQLite store
MaxCountLogs == 4     \* records held by either store in the counting runs
MaxHostLogs == 4      \* records held by the store in the several-computers runs

Thresholds == {1, 2, 3}   \* values tried for the brute-force threshold
Windows == {1, 2}         \* values tried for the window, in minutes

-----------------------------------------------------------------------------
(* str                                                                     *)

UpperCase == <<"A","B","C","D","E","F","G","H","I","J","K","L","M",
               "N","O","P","Q","R","S","T","U","V","W","X","Y","Z">>
LowerCase == <<"a","b","c","d","e","f","g","h","i","j","k","l","m",
               "n","o","p","q","r","s","t","u","v","w","x","y","z">>

\* str.lower() on one character
lower_char(c) ==
    IF \E i \in 1..26 : UpperCase[i] = c
    THEN LowerCase[CHOOSE i \in 1..26 : UpperCase[i] = c]
    ELSE c

\* str.lower()
lower(s) == [i \in 1..Len(s) |-> lower_char(s[i])]

\* the Python test `pattern in s` on two str
contains(pattern, s) ==
    \E i \in 0..(Len(s) - Len(pattern)) :
        SubSeq(s, i + 1, i + Len(pattern)) = pattern

None == <<"None">>
unknown == <<"u","n","k","n","o","w","n">>
empty_str == <<>>

at_domain_com == <<"@","d","o","m","a","i","n",".","c","o","m">>
admin == <<"a","d","m","i","n">>
backup_admin == <<"b","a","c","k","u","p","_","a","d","m","i","n">>
admin_domain_com == admin \o at_domain_com
backup_admin_domain_com == backup_admin \o at_domain_com
BACKUP_ADMIN_upper == <<"B","A","C","K","U","P","_","A","D","M","I","N">>
Root_domain_com == <<"R","o","o","t">> \o at_domain_com
user1_domain_com == <<"u","s","e","r","1">> \o at_domain_com
alice == <<"a","l","i","c","e">>
bob == <<"b","o","b">>
Admin1 == <<"A","d","m","i","n","1">>
svc_dollar == <<"s","v","c","$">>
pay_dollar_roll == <<"p","a","y","$","r","o","l","l">>
system == <<"s","y","s","t","e","m">>
SYSTEM_upper == <<"S","Y","S","T","E","M">>
systemd == <<"s","y","s","t","e","m","d">>
user1 == <<"u","s","e","r","1">>
WS01 == <<"W","S","0","1">>
WS02 == <<"W","S","0","2">>
WS_space_01 == <<"W","S"," ","0","1">>
John_space_Doe == <<"J","o","h","n"," ","D","o","e">>
Kerberos == <<"K","e","r","b","e","r","o","s">>
SeBackup_SeRestore ==
    <<"S","e","B","a","c","k","u","p","P","r","i","v","i","l","e","g","e",",">>
    \o <<"S","e","R","e","s","t","o","r","e","P","r","i","v","i","l","e","g","e">>
failure_0xC000006D == <<"0","x","C","0","0","0","0","0","6","D">>
failure_0xC000006A == <<"0","x","C","0","0","0","0","0","6","A">>
DC01 == <<"D","C","0","1">>

-----------------------------------------------------------------------------
(* dict                                                                    *)

\* dict.get(key, default)
get(log, key, default) == IF key \in DOMAIN log THEN log[key] ELSE default

-----------------------------------------------------------------------------
(* datetime                                                                *)

ValueError == [exc |-> "ValueError"]
IsException(v) == "exc" \in DOMAIN v

\* a wire token of the given shape
Token(fmt, day, hh, mm, ss) ==
    [fmt |-> fmt, day |-> day, hh |-> hh, mm |-> mm, ss |-> ss]
EmptyToken == Token("empty", 0, 0, 0, 0)
\* None where a wire token is expected
NoneToken == Token("none", 0, 0, 0, 0)

\* datetime(2023, 1, day, hour, minute, second), its microsecond being 0
DateTime(day, hour, minute, second) ==
    [day |-> day, hour |-> hour, minute |-> minute, second |-> second,
     microsecond |-> 0]

\* dt.replace(microsecond=microsecond)
replace_microsecond(dt, microsecond) == [dt EXCEPT !.microsecond = microsecond]

\* the format written without its seconds field, as '%Y%m%dT%H%M00Z'
strftime_without_seconds(dt) == Token("compact", dt.day, dt.hour, dt.minute, 0)

\* dt.strftime('%Y%m%dT%H%M%SZ'): the format has no field below the second
strftime(dt) == Token("compact", dt.day, dt.hour, dt.minute, dt.second)

\* the fields of a token denote a date and time of day
fields_in_range(tok) ==
    /\ tok.day \in 1..31
    /\ tok.hh \in 0..23
    /\ tok.mm \in 0..59
    /\ tok.ss \in 0..59

\* datetime.strptime(time_str, '%Y%m%dT%H%M%SZ')
strptime(time_str) ==
    IF time_str.fmt = "compact" /\ fields_in_range(time_str)
    THEN DateTime(time_str.day, time_str.hh, time_str.mm, time_str.ss)
    ELSE ValueError

\* datetime.isoformat()
isoformat(dt) == Token("iso", dt.day, dt.hour, dt.minute, dt.second)

\* datetime.fromisoformat(s)
fromisoformat(s) ==
    IF s.fmt = "iso" /\ fields_in_range(s)
    THEN DateTime(s.day, s.hh, s.mm, s.ss)
    ELSE ValueError

\* (dt - epoch).total_seconds(), the epoch being 2023-01-01T00:00:00
total_seconds(dt) ==
    (((dt.day - 1) * 24 + dt.hour) * 60 + dt.minute) * 60 + dt.second

-----------------------------------------------------------------------------
(* list helpers                                                            *)

Range(s) == {s[i] : i \in 1..Len(s)}

RECURSIVE SumSeq(_)
SumSeq(s) == IF s = <<>> THEN 0 ELSE Head(s) + SumSeq(Tail(s))

\* sorted(timestamps): insertion of t into an ascending list
RECURSIVE insert_sorted(_, _)
insert_sorted(t, s) ==
    IF s = <<>> THEN <<t>>
    ELSE IF total_seconds(t) < total_seconds(Head(s)) THEN <<t>> \o s
    ELSE <<Head(s)>> \o insert_sorted(t, Tail(s))

RECURSIVE sorted(_)
sorted(s) ==
    IF s = <<>> THEN <<>>
    ELSE insert_sorted(s[Len(s)], sorted(SubSeq(s, 1, Len(s) - 1)))

\* an insertion-ordered dict (Counter, defaultdict) is a list of <<key, value>>
has_key(d, k) == \E i \in 1..Len(d) : d[i][1] = k
index_of(d, k) == CHOOSE i \in 1..Len(d) : d[i][1] = k
value_of(d, k) == d[index_of(d, k)][2]

\* d[k] on a defaultdict whose missing values are `zero`
lookup(d, k, zero) == IF has_key(d, k) THEN value_of(d, k) ELSE zero

\* d[k] = v: a new key goes last, an old one keeps its place
put(d, k, v) ==
    IF has_key(d, k)
    THEN [d EXCEPT ![index_of(d, k)] = <<k, v>>]
    ELSE Append(d, <<k, v>>)

\* all orderings of a finite set
Permutations_of(S) ==
    {p \in [1..Cardinality(S) -> S] : \A x \in S : \E i \in DOMAIN p : p[i] = x}

-----------------------------------------------------------------------------
(* Program/App/app.py: LogAnalyser over the in-memory LogStorage           *)

\* get_logs returning the list as it was before the last store_log
get_logs_before_last_store ==
    IF logs = <<>> THEN logs ELSE SubSeq(logs, 1, Len(logs) - 1)

\* LogStorage.get_logs
get_logs == logs

\* Counter()[user] += 1
counter_inc(failed_logins, user) ==
    put(failed_logins, user, lookup(failed_logins, user, 0) + 1)

\* the loop body testing for a login event of either outcome
count_failed_step_any_login(failed_logins, log) ==
    IF get(log, "EventID", "None") \in {"4624", "4625"}
    THEN counter_inc(failed_logins, get(log, "User", unknown))
    ELSE failed_logins

\* the body of the loop of count_failed_logins, for one log
count_failed_step(failed_logins, log) ==
    IF get(log, "EventID", "None") = "4625"
    THEN counter_inc(failed_logins, get(log, "User", unknown))
    ELSE failed_logins

RECURSIVE count_failed_loop(_, _, _)
count_failed_loop(lg, i, failed_logins) ==
    IF i > Len(lg) THEN failed_logins
    ELSE count_failed_loop(lg, i + 1, count_failed_step(failed_logins, lg[i]))

\* LogAnalyser.count_failed_logins: the Counter's items, in insertion order,
\* with the zero counts filtered out
count_failed_logins(lg) ==
    LET failed_logins == count_failed_loop(lg, 1, <<>>)
        positive(item) == item[2] > 0
    IN  SelectSeq(failed_logins, positive)

\* the loop body giving a login whose TimeCreated is missing or malformed
\* the current time instead of skipping it
timeline_step_fallback(timeline, log) ==
    IF get(log, "EventID", "None") \in {"4624", "4625"}
    THEN LET time_str == get(log, "TimeCreated", EmptyToken)
             dt == strptime(time_str)
         IN  Append(timeline,
                    [timestamp  |-> IF IsException(dt) THEN now ELSE dt,
                     event_type |-> IF get(log, "EventID", "None") = "4624"
                                    THEN "Success" ELSE "Failure",
                     user       |-> get(log, "User", unknown),
                     computer   |-> get(log, "Computer", unknown)])
    ELSE timeline

\* the body of the loop of get_login_timeline, for one log
timeline_step(timeline, log) ==
    IF get(log, "EventID", "None") \in {"4624", "4625"}
    THEN LET time_str == get(log, "TimeCreated", EmptyToken) IN
         IF time_str.fmt # "empty"
         THEN LET dt == strptime(time_str) IN
              IF IsException(dt)
              THEN timeline   \* except ValueError: pass
              ELSE Append(timeline,
                     [timestamp  |-> dt,
                      event_type |-> IF get(log, "EventID", "None") = "4624"
                                     THEN "Success" ELSE "Failure",
                      user       |-> get(log, "User", unknown),
                      computer   |-> get(log, "Computer", unknown)])
         ELSE timeline
    ELSE timeline

RECURSIVE timeline_loop(_, _, _)
timeline_loop(lg, i, timeline) ==
    IF i > Len(lg) THEN timeline
    ELSE timeline_loop(lg, i + 1, timeline_step(timeline, lg[i]))

\* LogAnalyser.get_login_timeline
get_login_timeline(lg) == timeline_loop(lg, 1, <<>>)

\* the grouping loop of detect_brute_force with the event_type test left out
failed_attempts_any_event(timeline) ==
    LET RECURSIVE group(_, _)
        group(i, acc) ==
            IF i > Len(timeline) THEN acc
            ELSE LET event == timeline[i] IN
                 group(i + 1,
                       put(acc, event.user,
                           Append(lookup(acc, event.user, <<>>), event.timestamp)))
    IN  group(1, <<>>)

\* detect_brute_force, the grouping loop: defaultdict(list) user -> timestamps
failed_attempts(timeline) ==
    LET RECURSIVE group(_, _)
        group(i, acc) ==
            IF i > Len(timeline) THEN acc
            ELSE LET event == timeline[i] IN
                 group(i + 1,
                       IF event.event_type = "Failure"
                       THEN put(acc, event.user,
                                Append(lookup(acc, event.user, <<>>),
                                       event.timestamp))
                       ELSE acc)
    IN  group(1, <<>>)

\* the window test with the minutes truncated to whole minutes
within_window_truncated(first, last, time_window_minutes) ==
    (total_seconds(last) - total_seconds(first)) \div 60 <= time_window_minutes

\* time_diff = (last - first).total_seconds() / 60;
\* time_diff <= time_window_minutes   (a real-number comparison)
within_window(first, last, time_window_minutes) ==
    total_seconds(last) - total_seconds(first) <= time_window_minutes * 60

\* brute_force[user] = threshold, the size of the slice that was found
brute_force_count_of_slice(timestamps, threshold) == threshold

\* brute_force[user] = len(timestamps)
brute_force_count(timestamps, threshold) == Len(timestamps)

\* for i in range(len(sorted_times) - threshold + 1): ... break
has_dense_slice(timestamps, threshold, time_window_minutes) ==
    /\ Len(timestamps) >= threshold
    /\ LET sorted_times == sorted(timestamps) IN
       \E i \in 0..(Len(sorted_times) - threshold) :
           \* Python indexes from 0: sorted_times[i], sorted_times[i+threshold-1]
           within_window(sorted_times[i + 1], sorted_times[i + threshold],
                         time_window_minutes)

\* LogAnalyser.detect_brute_force (in-memory): dict user -> count
detect_brute_force(lg, threshold, time_window_minutes) ==
    LET timeline == get_login_timeline(lg)
        attempts == failed_attempts(timeline)
        flagged  == {i \in 1..Len(attempts) :
                        has_dense_slice(attempts[i][2], threshold,
                                        time_window_minutes)}
    IN  [user \in {attempts[i][1] : i \in flagged} |->
             brute_force_count(value_of(attempts, user), threshold)]

-----------------------------------------------------------------------------
(* list(set): the elements of a set of str in the order of the hash table  *)

\* list(s) for a set s of str, under the process's hash seed
list_of_set(seed, s) ==
    LET member(name) == name \in s IN SelectSeq(seed, member)

\* for pattern in known_suspicious_patterns:
\*     if pattern in user and user != 'backup_admin': ... break
is_suspicious(user) ==
    \E pattern \in {<<"h","a","c","k","e","r">>, admin, <<"r","o","o","t">>,
                    <<"t","e","s","t">>, <<"g","u","e","s","t">>} :
        contains(pattern, user) /\ user # backup_admin

\* LogAnalyser.detect_suspicious_users (keyword-based): list(suspicious)
detect_suspicious_users(lg, seed) ==
    LET suspicious ==
            {get(lg[i], "User", None) : i \in
                {j \in 1..Len(lg) : is_suspicious(lower(get(lg[j], "User", empty_str)))}}
    IN  list_of_set(seed, suspicious)

\* range(0, 5) written as range(0, 6)
unusual_hour_range_off_by_one == 0..5

\* range(0, 5)
unusual_hour_range == 0..4

\* [h for h in range(0, 5) if hour_counts[h] > 0]
unusual_hours_of(timeline) ==
    LET hour_count(h) ==
            Cardinality({i \in 1..Len(timeline) : timeline[i].timestamp.hour = h})
        RECURSIVE scan(_)
        scan(h) ==
            IF h \notin unusual_hour_range THEN <<>>
            ELSE (IF hour_count(h) > 0 THEN <<h>> ELSE <<>>) \o scan(h + 1)
    IN  scan(0)

\* user_computers: defaultdict(set) user -> set of computers
user_computers_of(timeline) ==
    LET RECURSIVE group(_, _)
        group(i, acc) ==
            IF i > Len(timeline) THEN acc
            ELSE LET event == timeline[i] IN
                 group(i + 1,
                       put(acc, event.user,
                           lookup(acc, event.user, {}) \cup {event.computer}))
    IN  group(1, <<>>)

\* len(computers) > 2 written as len(computers) >= 2
logged_in_from_many_or_two(computers) == Cardinality(computers) >= 2

\* if len(computers) > 2
logged_in_from_many(computers) == Cardinality(computers) > 2

\* LogAnalyser.detect_unusual_activity. A finding is the text of the message:
\*   "Unusual login hours detected: h, h:00"   [kind, hours]
\*   "User u logged in from multiple computers: c, c"   [kind, user, computers]
detect_unusual_activity(lg) ==
    LET timeline == get_login_timeline(lg)
        unusual_hours == unusual_hours_of(timeline)
        user_computers == user_computers_of(timeline)
        many(item) == logged_in_from_many(item[2])
        multi == SelectSeq(user_computers, many)
    IN  (IF unusual_hours # <<>>
         THEN <<[kind |-> "unusual_hours", hours |-> unusual_hours]>>
         ELSE <<>>)
        \o [i \in 1..Len(multi) |->
               [kind |-> "multiple_computers", user |-> multi[i][1],
                computers |-> multi[i][2]]]

\* the loop body leaving a log without a Computer out of computer_activity
event_statistics_step_skipping(stats, log) ==
    [event_counts      |-> counter_inc(stats.event_counts, get(log, "EventID", "None")),
     computer_activity |-> IF "Computer" \in DOMAIN log
                           THEN counter_inc(stats.computer_activity, log["Computer"])
                           ELSE stats.computer_activity,
     user_activity     |-> counter_inc(stats.user_activity, get(log, "User", unknown))]

\* the body of the loop of get_event_statistics, for one log
event_statistics_step(stats, log) ==
    LET event_id == get(log, "EventID", "None")
        computer == get(log, "Computer", unknown)
        user     == get(log, "User", unknown)
    IN  [event_counts      |-> counter_inc(stats.event_counts, event_id),
         computer_activity |-> counter_inc(stats.computer_activity, computer),
         user_activity     |-> counter_inc(stats.user_activity, user)]

RECURSIVE event_statistics_loop(_, _, _)
event_statistics_loop(lg, i, stats) ==
    IF i > Len(lg) THEN stats
    ELSE event_statistics_loop(lg, i + 1, event_statistics_step(stats, lg[i]))

\* LogAnalyser.get_event_statistics: three dicts, each in insertion order
get_event_statistics(lg) ==
    event_statistics_loop(lg, 1,
        [event_counts |-> <<>>, computer_activity |-> <<>>, user_activity |-> <<>>])

-----------------------------------------------------------------------------
(* Logs/logstorage.py: LogStorage over SQLite                              *)
(*                                                                         *)
(* rows is the content of table logs, which the first statement of         *)
(* _create_tables creates.  The second statement of _create_tables carries *)
(* a `#` comment inside its SQL text, which SQLite rejects, so __init__    *)
(* raises as written; the store is modelled as built around that defect,   *)
(* with its logs table in place and log_history empty.                     *)

\* LogStorage._parse_timestamp: an ISO string; the current time when the
\* token is missing, empty or not in the wire format
parse_timestamp(time_str, clock) ==
    IF time_str.fmt \in {"none", "empty"}   \* if not time_str
    THEN isoformat(clock)
    ELSE LET dt == strptime(time_str) IN
         IF IsException(dt) THEN isoformat(clock) ELSE isoformat(dt)

standard_fields ==
    {"EventID", "TimeCreated", "Computer", "User", "LogonType", "SourceIP", "Status"}

\* {k: v for k, v in log_data.items() if k not in standard_fields}
additional_info_of(log_data) ==
    [k \in (DOMAIN log_data) \ standard_fields |-> log_data[k]]

\* json.dumps(additional_info) raises TypeError: a value is a datetime (the
\* timestamp of a record of the pattern parser, when it parsed)
json_dumps_raises(additional_info) ==
    /\ "timestamp" \in DOMAIN additional_info
    /\ "microsecond" \in DOMAIN additional_info["timestamp"]

\* the row INSERTed by store_log; id is cursor.lastrowid
new_row(log_data, clock, id) ==
    [id               |-> id,
     event_id         |-> get(log_data, "EventID", "None"),
     timestamp        |-> parse_timestamp(get(log_data, "TimeCreated", NoneToken), clock),
     computer         |-> get(log_data, "Computer", None),
     user             |-> get(log_data, "User", None),
     logon_type       |-> get(log_data, "LogonType", None),
     source_ip        |-> get(log_data, "SourceIP", None),
     status           |-> get(log_data, "Status", None),
     raw_text         |-> <<log_data>>,
     additional_info  |-> additional_info_of(log_data),
     processed        |-> FALSE,
     created_at       |-> clock,
     analysis_results |-> "None"]

\* id INTEGER PRIMARY KEY AUTOINCREMENT: one more than the largest id given
\* so far (no row is ever deleted, so the last row holds it)
autoincrement(table) ==
    IF table = <<>> THEN 1 ELSE table[Len(table)].id + 1

\* lastrowid read from a cursor that did not run the INSERT
lastrowid_of_fresh_cursor(table) == 0

\* cursor.lastrowid after the INSERT: the id of the row just added to table
lastrowid(table) == table[Len(table)].id

\* the entry store_log appends to log_history and returns
history_entry(row, log_id) ==
    [id        |-> log_id,
     event_id  |-> row.event_id,
     timestamp |-> row.timestamp,
     computer  |-> row.computer,
     user      |-> row.user,
     status    |-> "stored",
     processed |-> FALSE,
     analysis  |-> "None"]

\* UPDATE logs SET analysis_results = ?, processed = 1 WHERE id = ?
\* (json.dumps and json.loads of a dict of strings to plain values give the
\* dict back)
update_rows(table, log_id, analysis_results) ==
    [i \in 1..Len(table) |->
        IF table[i].id = log_id
        THEN [table[i] EXCEPT !.analysis_results = analysis_results,
                              !.processed = TRUE]
        ELSE table[i]]

\* the loop of update_log_analysis marking the first entry of log_history,
\* whatever its id
update_history_of_first_entry(history, log_id, analysis_results) ==
    IF history = <<>> THEN history
    ELSE [history EXCEPT ![1] =
             [@ EXCEPT !.analysis = analysis_results,
                       !.status = "analyzed",
                       !.processed = TRUE]]

\* the loop of update_log_analysis over log_history: the first entry with
\* the id is updated
update_history(history, log_id, analysis_results) ==
    IF \E i \in 1..Len(history) : history[i].id = log_id
    THEN LET first == CHOOSE i \in 1..Len(history) :
                         /\ history[i].id = log_id
                         /\ \A j \in 1..(i - 1) : history[j].id # log_id
         IN  [history EXCEPT ![first] =
                 [@ EXCEPT !.analysis = analysis_results,
                           !.status = "analyzed",
                           !.processed = TRUE]]
    ELSE history

\* the None get_log_details returns when no row has the id
NoDetails == [none |-> TRUE]

\* LogStorage.get_log_details: SELECT * FROM logs WHERE id = ?
get_log_details(table, log_id) ==
    IF \E i \in 1..Len(table) : table[i].id = log_id
    THEN table[CHOOSE i \in 1..Len(table) : table[i].id = log_id]
    ELSE NoDetails

-----------------------------------------------------------------------------
(* Program/Logs/loganalyser.py: LogAnalyser over the SQLite store          *)

\* WHERE event_id = 4625 on the TEXT column event_id
is_failed_login_row(row) == row.event_id = "4625"

\* SELECT user, COUNT(*) ... WHERE event_id = 4625 GROUP BY user: the groups
failed_login_groups(table) ==
    LET failed == SelectSeq(table, is_failed_login_row)
        users  == {failed[i].user : i \in 1..Len(failed)}
    IN  {<<u, Cardinality({i \in 1..Len(failed) : failed[i].user = u})>> : u \in users}

\* ORDER BY count DESC; the order among equal counts is not specified by SQL
db_count_failed_logins_results(table) ==
    {p \in Permutations_of(failed_login_groups(table)) :
        \A i, j \in DOMAIN p : i < j => p[i][2] >= p[j][2]}

\* the eligibility test of the recent-window detect_brute_force:
\*   if now - timestamp <= window_td
is_recent(clock, timestamp, minutes) ==
    total_seconds(clock) - total_seconds(timestamp) <= minutes * 60

\* LogAnalyser.detect_brute_force(window='<minutes>m', threshold)
\* (the rows come ORDER BY timestamp; the result is a dict, whose order is
\* not observed here)
db_detect_brute_force(table, clock, minutes, threshold) ==
    LET failed   == SelectSeq(table, is_failed_login_row)
        eligible == {i \in 1..Len(failed) :
                        LET timestamp == fromisoformat(failed[i].timestamp) IN
                        /\ ~IsException(timestamp)
                        /\ is_recent(clock, timestamp, minutes)}
        attempts(u) == Cardinality({i \in eligible : failed[i].user = u})
    IN  [u \in {v \in {failed[i].user : i \in eligible} : attempts(v) >= threshold}
            |-> attempts(u)]

\* a pattern of Config.ALERT_THRESHOLDS['suspicious_user_patterns'] is a
\* list of atoms: a literal character, ".*", or an escaped character
suspicious_user_patterns ==
    << <<"a","d","m","i","n",".*">>,
       <<".*","\\$">>,
       <<"s","y","s","t","e","m">> >>

\* one atom against one character, under re.IGNORECASE
atom_matches(atom, c) ==
    IF atom = "\\$" THEN c = "$" ELSE lower_char(atom) = lower_char(c)

\* the pattern from atom i on matches s from position j on (a prefix of it)
RECURSIVE match_here(_, _, _, _)
match_here(pattern, i, s, j) ==
    IF i > Len(pattern) THEN TRUE
    ELSE IF pattern[i] = ".*"
         THEN \E k \in j..(Len(s) + 1) : match_here(pattern, i + 1, s, k)
         ELSE /\ j <= Len(s)
              /\ atom_matches(pattern[i], s[j])
              /\ match_here(pattern, i + 1, s, j + 1)

\* re.match(pattern, user, re.IGNORECASE) is not None: the pattern matches at
\* the start of user (the end of user need not be reached)
re_match(pattern, user) == match_here(pattern, 1, user, 1)

\* the loop body of detect_suspicious_users for one user
matches_suspicious_pattern(user) ==
    \E n \in 1..Len(suspicious_user_patterns) :
        re_match(suspicious_user_patterns[n], user)

\* SELECT DISTINCT user FROM logs: the order of the rows is not specified
distinct_users_results(table) ==
    Permutations_of({table[i].user : i \in 1..Len(table)})

\* LogAnalyser.detect_suspicious_users (pattern-based) over one ordering of
\* the distinct users; re.match raises TypeError on a NULL user
db_detect_suspicious_users(distinct_users) ==
    IF \E i \in 1..Len(distinct_users) : distinct_users[i] = None
    THEN [exc |-> "TypeError"]
    ELSE SelectSeq(distinct_users, matches_suspicious_pattern)

-----------------------------------------------------------------------------
(* Lines of text and the two parsers                                       *)
(*                                                                         *)
(* A line is held as the words between its runs of whitespace, with a flag *)
(* for whitespace before the first word.  A word holding an '=' is held    *)
(* split at the first '=': a key (a string) and a value; the value is a    *)
(* string of characters, except that the value of TimeCreated is a wire    *)
(* token and the value of EventID one of the event codes below.            *)

\* the None a parser returns for a line it does not accept
Unparseable == [unparseable |-> TRUE]
IsUnparseable(v) == "unparseable" \in DOMAIN v

KeyValue(key, value) == [key |-> key, value |-> value]
Word(text) == [text |-> text]
Line(leading_space, words) == [leading_space |-> leading_space, words |-> words]

\* '=' in part
has_equals(part) == "key" \in DOMAIN part

\* the event codes lines carry; nines_4301 stands for the code written as
\* 4301 nines
nines_4301 == "99...9 (4301 digits)"
EventCodes == {"4624", "4625", "4634", "4672", "0042", "46x5", "", nines_4301}

\* the code is made of digits only, and the number of its digits
is_digits(event_id) ==
    event_id \in {"4624", "4625", "4634", "4672", "0042", nines_4301}
digit_count(event_id) == IF event_id = nines_4301 THEN 4301 ELSE 4

\* the values of sys.get_int_max_str_digits() an interpreter runs with:
\* 4300 by default since CPython 3.11 (and the security releases of 3.7 to
\* 3.10), 0 where there is no limit
IntMaxStrDigits == {4300, 0}

\* int(event_id) raises ValueError: the code has more digits than the limit
exceeds_max_str_digits(event_id, max_str_digits) ==
    max_str_digits > 0 /\ digit_count(event_id) > max_str_digits

\* int(event_id) of a code made of digits, when it does not raise
int(event_id) ==
    CASE event_id = "4624" -> 4624
      [] event_id = "4625" -> 4625
      [] event_id = "4634" -> 4634
      [] event_id = "4672" -> 4672
      [] event_id = "0042" -> 42
      [] event_id = nines_4301 -> [huge |-> digit_count(event_id)]

\* the value of a key=value word is the empty string
is_empty_value(part) ==
    CASE part.key = "EventID"     -> part.value = ""
      [] part.key = "TimeCreated" -> part.value.fmt = "empty"
      [] OTHER                    -> part.value = <<>>

\* s.split(): the pieces of a string of characters between its spaces
RECURSIVE split(_)
split(s) ==
    IF s = <<>> THEN <<>>
    ELSE IF Head(s) = " " THEN split(Tail(s))
    ELSE LET stop == IF \E i \in 1..Len(s) : s[i] = " "
                     THEN (CHOOSE i \in 1..Len(s) :
                              s[i] = " " /\ \A j \in 1..(i - 1) : s[j] # " ") - 1
                     ELSE Len(s)
         IN  <<SubSeq(s, 1, stop)>> \o split(SubSeq(s, stop + 1, Len(s)))

\* the words that the text key=value makes in a line, value being a string
\* of characters: up to the first space of value they are one key=value
\* word, and each later piece of value is a word of its own (the pieces
\* tried here hold no '=')
words_of(key, value) ==
    LET first == IF \E i \in 1..Len(value) : value[i] = " "
                 THEN SubSeq(value, 1,
                        (CHOOSE i \in 1..Len(value) :
                            value[i] = " " /\ \A j \in 1..(i - 1) : value[j] # " ") - 1)
                 ELSE value
        rest  == split(SubSeq(value, Len(first) + 1, Len(value)))
    IN  <<KeyValue(key, first)>> \o [i \in 1..Len(rest) |-> Word(rest[i])]

\* parsed_data[key] = value
dict_set(parsed_data, key, value) ==
    [k \in (DOMAIN parsed_data) \cup {key} |->
        IF k = key THEN value ELSE parsed_data[k]]

\* the loop of the token parser over the parts of the line
RECURSIVE parse_line_loop(_, _, _)
parse_line_loop(parts, i, parsed_data) ==
    IF i > Len(parts) THEN parsed_data
    ELSE parse_line_loop(parts, i + 1,
            IF has_equals(parts[i])
            THEN dict_set(parsed_data, parts[i].key, parts[i].value)
            ELSE parsed_data)

\* app.py LogParser.parse_line: the dict of the key=value words, or None
parse_line(line) ==
    LET parsed_data == parse_line_loop(line.words, 1, <<>>)
    IN  IF DOMAIN parsed_data # {} THEN parsed_data ELSE Unparseable

\* logparser.py LogParser._parse_windows_timestamp: the datetime, or the
\* string itself when it is not in the wire format
parse_windows_timestamp(timestamp_str) ==
    LET dt == strptime(timestamp_str) IN
    IF IsException(dt) THEN timestamp_str ELSE dt

\* windows_event_pattern.match(line): EventID=\d+, TimeCreated=\S+,
\* Computer=\S+ and User=\S+ with \s+ between them, from the first character
\* of the line on
windows_event_pattern_match(line) ==
    LET words == line.words
        is_field(i, key) ==
            /\ has_equals(words[i])
            /\ words[i].key = key
            /\ ~is_empty_value(words[i])
    IN  /\ ~line.leading_space
        /\ Len(words) >= 4
        /\ is_field(1, "EventID") /\ is_digits(words[1].value)
        /\ is_field(2, "TimeCreated")
        /\ is_field(3, "Computer")
        /\ is_field(4, "User")

\* logparser.py LogParser.parse_line; an exception of int() leaves it
pattern_parse_line(line, max_str_digits) ==
    IF windows_event_pattern_match(line)
    THEN IF exceeds_max_str_digits(line.words[1].value, max_str_digits)
         THEN ValueError
         ELSE [event_id  |-> int(line.words[1].value),
               timestamp |-> parse_windows_timestamp(line.words[2].value),
               computer  |-> line.words[3].value,
               user      |-> line.words[4].value]
    ELSE Unparseable

\* generate_realistic_log: the line for an event; rnd holds the random
\* choices (computer, user, logon_type, reason) the call makes
generate_realistic_log(timestamp, event_type, computer, user, rnd) ==
    LET the_computer == IF computer \in {None, <<>>} THEN rnd.computer ELSE computer
        the_user     == IF user \in {None, <<>>} THEN rnd.user ELSE user
        time_str     == strftime(timestamp)
        additional   ==
            CASE event_type = "4624" ->
                    <<KeyValue("LogonType", rnd.logon_type),
                      KeyValue("AuthPackage", Kerberos)>>
              [] event_type = "4625" ->
                    <<KeyValue("FailureReason", rnd.reason),
                      KeyValue("LogonType", <<"3">>)>>
              [] event_type = "4672" ->
                    <<KeyValue("PrivilegeList", SeBackup_SeRestore)>>
              [] OTHER -> <<>>
    IN  Line(FALSE,
             <<KeyValue("EventID", event_type), KeyValue("TimeCreated", time_str)>>
             \o words_of("Computer", the_computer)
             \o words_of("User", the_user)
             \o additional)

-----------------------------------------------------------------------------
(* The alert sink: the two SplunkIntegration classes and their callers     *)

\* splunk=None, the default of process_log_file and generate_alerts
NoSplunk == [class |-> "NoneType"]

\* app.py SplunkIntegration(config): never connects, enabled is False
AppSplunkIntegration ==
    [class |-> "app.SplunkIntegration", enabled |-> FALSE,
     error_reported |-> FALSE]

\* splunk.enabled = True, set on the app.py object by its owner
enable(sink) == [sink EXCEPT !.enabled = TRUE]

\* splunk.py SplunkIntegration(config): an object with the attributes config
\* and service, and no attribute `enabled`. service is None when the sink is
\* disabled or client.connect failed, otherwise the service answers ("up")
\* or the submit to its index raises ("down")
HecSplunkIntegration(enabled, service) ==
    [class |-> "splunk.SplunkIntegration", config |-> [enabled |-> enabled],
     service |-> IF enabled THEN service ELSE "None"]

skipping_line ==
    [by |-> "send_to_hec",
     text |-> "Splunk integration is disabled - skipping data transmission"]
failed_line == [by |-> "send_to_hec", text |-> "Failed to send to Splunk"]

\* SplunkIntegration.send_to_hec of either class: the object afterwards, the
\* lines it printed and the value it returned. In splunk.py a service of
\* None raises AttributeError inside the try and a failing submit raises
\* there too; both are caught by `except Exception`
send_to_hec(sink, data) ==
    IF sink.class = "app.SplunkIntegration"
    THEN [splunk   |-> [sink EXCEPT !.error_reported = TRUE],
          printed  |-> IF ~sink.error_reported THEN <<skipping_line>> ELSE <<>>,
          returned |-> TRUE]
    ELSE IF ~sink.config.enabled
    THEN [splunk |-> sink, printed |-> <<>>, returned |-> FALSE]
    ELSE IF sink.service = "up"
    THEN [splunk |-> sink, printed |-> <<>>, returned |-> TRUE]
    ELSE [splunk |-> sink, printed |-> <<failed_line>>, returned |-> FALSE]

\* what a caller of the core holds while it runs: the list of the store,
\* the sink, the lines printed, the events handed to send_to_hec, and the
\* exception that is propagating ("None" when none is)
Run(stored, sink, printed, handed) ==
    [stored |-> stored, splunk |-> sink, stdout |-> printed,
     hec_calls |-> handed, raised |-> "None"]

\* if splunk and splunk.enabled: splunk.send_to_hec(data)
\* (an object without the attribute `enabled` raises AttributeError)
hand_to_sink(run, data) ==
    IF run.splunk.class = "NoneType" THEN run
    ELSE IF "enabled" \notin DOMAIN run.splunk
    THEN [run EXCEPT !.raised = "AttributeError"]
    ELSE IF ~run.splunk.enabled THEN run
    ELSE LET sent == send_to_hec(run.splunk, data)
         IN  [run EXCEPT !.splunk = sent.splunk,
                         !.stdout = @ \o sent.printed,
                         !.hec_calls = Append(@, data)]

\* brute_force.items(): the flagged users in the order of failed_attempts
brute_force_items(lg, threshold, time_window_minutes) ==
    LET brute_force == detect_brute_force(lg, threshold, time_window_minutes)
        attempts    == failed_attempts(get_login_timeline(lg))
        flagged(item) == item[1] \in DOMAIN brute_force
        users       == SelectSeq(attempts, flagged)
    IN  [i \in 1..Len(users) |-> <<users[i][1], brute_force[users[i][1]]>>]

\* the alerts of generate_alerts, in the order it prints them. alert_msg is
\* the text of the message: "User u failed n login attempts" [user, attempts],
\* "Suspicious user account: u" [account], or the finding of
\* detect_unusual_activity
brute_force_alerts(lg) ==
    LET items == brute_force_items(lg, 3, 10)
    IN  [i \in 1..Len(items) |->
            [event |-> [user |-> items[i][1], attempts |-> items[i][2]],
             severity |-> "high", type |-> "brute_force"]]

suspicious_user_alerts(lg, seed) ==
    LET suspicious_users == detect_suspicious_users(lg, seed)
    IN  [i \in 1..Len(suspicious_users) |->
            [event |-> [account |-> suspicious_users[i]],
             severity |-> "medium", type |-> "suspicious_user"]]

unusual_activity_alerts(lg) ==
    LET unusual_activity == detect_unusual_activity(lg)
    IN  [i \in 1..Len(unusual_activity) |->
            [event |-> unusual_activity[i],
             severity |-> "medium", type |-> "unusual_activity"]]

\* print(f"- {alert_msg}")
alert_line(alert) == [by |-> "generate_alerts", alert |-> alert.event]

\* one round of a loop of generate_alerts: print the alert, then hand it to
\* the sink; nothing runs once an exception is propagating
alert_step(run, alert) ==
    IF run.raised # "None" THEN run
    ELSE hand_to_sink([run EXCEPT !.stdout = Append(@, alert_line(alert))],
                      alert)

RECURSIVE alert_loop(_, _, _)
alert_loop(alerts, i, run) ==
    IF i > Len(alerts) THEN run
    ELSE alert_loop(alerts, i + 1, alert_step(run, alerts[i]))

\* app.py generate_alerts(analyser, splunk) over the records lg (the
\* headings it prints are left out of stdout)
generate_alerts(lg, seed, run) ==
    alert_loop(unusual_activity_alerts(lg), 1,
        alert_loop(suspicious_user_alerts(lg, seed), 1,
            alert_loop(brute_force_alerts(lg), 1, run)))

\* line.strip()
strip(line) == Line(FALSE, line.words)

\* the loop of process_log_file leaving at the first line the parser does
\* not accept
RECURSIVE process_log_file_loop_stopping(_, _, _)
process_log_file_loop_stopping(f, i, run) ==
    IF i > Len(f) \/ run.raised # "None" THEN run
    ELSE LET line == strip(f[i]) IN
         IF line.words = <<>>
         THEN process_log_file_loop_stopping(f, i + 1, run)
         ELSE LET parsed == parse_line(line) IN
              IF IsUnparseable(parsed) THEN run
              ELSE process_log_file_loop_stopping(f, i + 1,
                       hand_to_sink([run EXCEPT !.stored = Append(@, parsed)],
                                    parsed))

\* the loop of process_log_file over the lines of the file f: run.stored is
\* the list of the store; the loop ends when the sink test raises
RECURSIVE process_log_file_loop(_, _, _)
process_log_file_loop(f, i, run) ==
    IF i > Len(f) \/ run.raised # "None" THEN run
    ELSE LET line == strip(f[i]) IN
         IF line.words = <<>>                       \* if line
         THEN process_log_file_loop(f, i + 1, run)
         ELSE LET parsed == parse_line(line) IN
              IF IsUnparseable(parsed)              \* if parsed
              THEN process_log_file_loop(f, i + 1, run)
              ELSE process_log_file_loop(f, i + 1,
                       hand_to_sink([run EXCEPT !.stored = Append(@, parsed)],
                                    parsed))

-----------------------------------------------------------------------------
(* The inputs                                                              *)

\* a parsed line: the dict the token parser produces
LogEntry(event_id, time_created, computer, user) ==
    [EventID |-> event_id, TimeCreated |-> time_created,
     Computer |-> computer, User |-> user]

\* the same dict with one key not present
Without(log, key) == [k \in (DOMAIN log) \ {key} |-> log[k]]

\* 20230101T000000Z and the like
Compact(hh, mm, ss) == Token("compact", 1, hh, mm, ss)

\* brute-force runs: failures and successes of two users, seconds apart
BruteTokens ==
    {Compact(0, 0, 0), Compact(0, 1, 0), Compact(0, 1, 1), Token("iso", 1, 0, 0, 0)}
BruteRecords ==
    {LogEntry(e, t, WS01, u) : e \in {"4625", "4624"}, t \in BruteTokens,
                               u \in {alice, bob}}

\* the instants the wall clock is read at
ClockStart == DateTime(1, 0, 0, 0)
ClockLater == DateTime(1, 0, 2, 1)

DefaultSeed == <<alice, bob>>

-----------------------------------------------------------------------------
(* The operations                                                          *)

InitWith(backends, seeds) ==
    /\ backend \in backends
    /\ logs = <<>>
    /\ rows = <<>>
    /\ log_history = <<>>
    /\ now = ClockStart
    /\ hashseed \in seeds
    /\ splunk = NoSplunk
    /\ stdout = <<>>
    /\ hec_calls = <<>>
    /\ pc = "idle"
    /\ handles = {}
    /\ call = [op |-> "init"]
    /\ result = "None"

\* app.py LogStorage.store_log
StoreLog(entries, max) ==
    /\ backend = "memory"
    /\ Len(logs) < max
    /\ \E log_entry \in entries :
        /\ logs' = Append(logs, log_entry)
        /\ call' = [op |-> "store_log"]
        /\ result' = "None"
    /\ UNCHANGED <<backend, rows, log_history, now, hashseed,
                    splunk, stdout, hec_calls, pc, handles>>

\* logstorage.py LogStorage.store_log of one dict, called as `op`:
\* json.dumps raises on a datetime among the additional fields; event_id is
\* NOT NULL, so the INSERT of a dict without EventID raises; either way
\* nothing is stored
DbStore(log_data, op) ==
    IF json_dumps_raises(additional_info_of(log_data))
    THEN /\ call' = op
         /\ result' = [exc |-> "TypeError"]
         /\ UNCHANGED <<rows, log_history>>
    ELSE IF "EventID" \notin DOMAIN log_data
    THEN /\ call' = op
         /\ result' = [exc |-> "IntegrityError"]
         /\ UNCHANGED <<rows, log_history>>
    ELSE LET row       == new_row(log_data, now, autoincrement(rows))
             log_entry == history_entry(row, lastrowid(Append(rows, row)))
         IN  /\ rows' = Append(rows, row)
             /\ log_history' = Append(log_history, log_entry)
             /\ call' = op
             /\ result' = log_entry

\* logstorage.py LogStorage.store_log
DbStoreLog(entries, max) ==
    /\ backend = "sqlite"
    /\ Len(rows) < max
    /\ \E log_data \in entries : DbStore(log_data, [op |-> "store_log"])
    /\ UNCHANGED <<backend, logs, now, hashseed,
                    splunk, stdout, hec_calls, pc, handles>>

\* time passes (only the SQLite store and its analyser read the clock)
Tick ==
    /\ backend = "sqlite"
    /\ now = ClockStart
    /\ now' = ClockLater
    /\ call' = [op |-> "tick"]
    /\ result' = "None"
    /\ UNCHANGED <<backend, logs, rows, log_history, hashseed,
                    splunk, stdout, hec_calls, pc, handles>>

\* a call of an operation of the in-memory analyser, which changes no state
Returns(op, value) ==
    /\ backend = "memory"
    /\ call' = op
    /\ result' = value
    /\ UNCHANGED <<backend, logs, rows, log_history, now, hashseed,
                    splunk, stdout, hec_calls, pc, handles>>

\* a call of an operation of the store-backed analyser
DbReturns(op, value) ==
    /\ backend = "sqlite"
    /\ call' = op
    /\ result' = value
    /\ UNCHANGED <<backend, logs, rows, log_history, now, hashseed,
                    splunk, stdout, hec_calls, pc, handles>>

\* logstorage.py LogStorage.update_log_analysis
UpdateLogAnalysis(log_ids, analyses) ==
    /\ backend = "sqlite"
    /\ \E log_id \in log_ids, analysis_results \in analyses :
          /\ rows' = update_rows(rows, log_id, analysis_results)
          /\ log_history' = update_history(log_history, log_id, analysis_results)
          /\ call' = [op |-> "update_log_analysis", log_id |-> log_id,
                      analysis_results |-> analysis_results]
          /\ result' = TRUE
    /\ UNCHANGED <<backend, logs, now, hashseed,
                    splunk, stdout, hec_calls, pc, handles>>

\* logstorage.py LogStorage.get_log_details
GetLogDetails(log_ids) ==
    \E log_id \in log_ids :
        DbReturns([op |-> "get_log_details", log_id |-> log_id],
                  get_log_details(rows, log_id))

CountFailedLogins ==
    Returns([op |-> "count_failed_logins"], count_failed_logins(get_logs))

GetLoginTimeline ==
    Returns([op |-> "get_login_timeline"], get_login_timeline(get_logs))

DetectBruteForce ==
    \E threshold \in Thresholds, time_window_minutes \in Windows :
        Returns([op |-> "detect_brute_force", threshold |-> threshold,
                 window |-> time_window_minutes],
                detect_brute_force(get_logs, threshold, time_window_minutes))

DetectSuspiciousUsers ==
    Returns([op |-> "detect_suspicious_users"],
            detect_suspicious_users(get_logs, hashseed))

DetectUnusualActivity ==
    Returns([op |-> "detect_unusual_activity"], detect_unusual_activity(get_logs))

GetEventStatistics ==
    Returns([op |-> "get_event_statistics"], get_event_statistics(get_logs))

DbCountFailedLogins ==
    \E fetched \in db_count_failed_logins_results(rows) :
        DbReturns([op |-> "count_failed_logins"], fetched)

DbDetectBruteForce ==
    \E threshold \in Thresholds, minutes \in Windows :
        DbReturns([op |-> "detect_brute_force", threshold |-> threshold,
                   window |-> minutes],
                  db_detect_brute_force(rows, now, minutes, threshold))

DbDetectSuspiciousUsers ==
    \E fetched \in distinct_users_results(rows) :
        DbReturns([op |-> "detect_suspicious_users"],
                  db_detect_suspicious_users(fetched))

-----------------------------------------------------------------------------
(* Brute-force detection over either store                                 *)

Init == InitWith({"memory", "sqlite"}, {DefaultSeed})

Next ==
    \/ StoreLog(BruteRecords, MaxLogs)
    \/ DbStoreLog(BruteRecords, MaxRows)
    \/ Tick
    \/ DetectBruteForce
    \/ DbDetectBruteForce

Spec == Init /\ [][Next]_vars

-----------------------------------------------------------------------------
(* Claims about brute-force detection                                      *)

\* the seconds since the epoch a well-formed wire token denotes
SecondsOf(time_created) == total_seconds(strptime(time_created))

\* the records of the in-memory store that are failed logins of `user`
\* (a record without User belongs to 'unknown')
FailedLoginsOf(user) ==
    {i \in 1..Len(logs) :
        /\ get(logs[i], "EventID", "None") = "4625"
        /\ get(logs[i], "User", unknown) = user}

\* those of them that reach the timeline: TimeCreated present and well formed
TimedFailuresOf(user) ==
    {i \in FailedLoginsOf(user) :
        /\ "TimeCreated" \in DOMAIN logs[i]
        /\ logs[i].TimeCreated.fmt = "compact"
        /\ fields_in_range(logs[i].TimeCreated)}

\* `threshold` of the user's failures lie within the window of each other;
\* this is the case exactly when `threshold` consecutive ones, in ascending
\* order, span at most the window
HasBurst(user, threshold, minutes) ==
    \E S \in SUBSET TimedFailuresOf(user) :
        /\ Cardinality(S) = threshold
        /\ \A i, j \in S :
              SecondsOf(logs[j].TimeCreated) - SecondsOf(logs[i].TimeCreated)
                  <= minutes * 60

UsersOfLogs == {get(logs[i], "User", unknown) : i \in 1..Len(logs)}

\* C1: the in-memory detect_brute_force flags a user if and only if some
\* `threshold` consecutive failed-login timestamps of the user, in ascending
\* order, span at most the window, and reports for a flagged user the total
\* number of the user's failed-login timestamps
C1_BurstFlagsWithTotalCount ==
    (backend = "memory" /\ call.op = "detect_brute_force") =>
        /\ DOMAIN result =
              {u \in UsersOfLogs : HasBurst(u, call.threshold, call.window)}
        /\ \A u \in DOMAIN result : result[u] = Cardinality(TimedFailuresOf(u))

\* a user is flagged with more failures than the threshold, and the failures
\* taken together span more than the window: the count is the total
C1_Witness ==
    /\ backend = "memory"
    /\ call.op = "detect_brute_force"
    /\ \E u \in DOMAIN result :
        /\ result[u] > call.threshold
        /\ \E i, j \in TimedFailuresOf(u) :
              SecondsOf(logs[j].TimeCreated) - SecondsOf(logs[i].TimeCreated)
                  > call.window * 60

\* the number of failed logins of `user` in the store in use
FailedLoginCount(user) ==
    IF backend = "memory"
    THEN Cardinality(FailedLoginsOf(user))
    ELSE Cardinality({i \in 1..Len(rows) :
                         rows[i].event_id = "4625" /\ rows[i].user = user})

\* C2: detect_brute_force (either analyser) never flags a user who has
\* fewer than `threshold` failed logins in total
C2_NeverFlagsBelowThreshold ==
    call.op = "detect_brute_force" =>
        \A u \in DOMAIN result : FailedLoginCount(u) >= call.threshold

\* a user with two failures and a success, all within the window, is not
\* flagged under threshold 3
C2_Witness ==
    /\ backend = "memory"
    /\ call.op = "detect_brute_force"
    /\ call.threshold = 3
    /\ Len(logs) = 3
    /\ \E u \in UsersOfLogs :
        /\ \A i \in 1..Len(logs) : logs[i].User = u
        /\ FailedLoginCount(u) = 2
        /\ \A i, j \in 1..Len(logs) :
              /\ ~IsException(strptime(logs[i].TimeCreated))
              /\ SecondsOf(logs[j].TimeCreated) - SecondsOf(logs[i].TimeCreated)
                    <= call.window * 60
        /\ u \notin DOMAIN result

\* the failed-login rows of `user` at most `minutes` away from now, before
\* or after it
WithinWindowOfNow(user, minutes) ==
    {i \in 1..Len(rows) :
        /\ rows[i].event_id = "4625"
        /\ rows[i].user = user
        /\ LET d == total_seconds(now) - total_seconds(fromisoformat(rows[i].timestamp))
           IN  d <= minutes * 60 /\ -d <= minutes * 60}

\* C3: the store-backed detect_brute_force counts only the failures within
\* `window` minutes of the current time, in the past or in the future, flags
\* a user if and only if that number is at least the threshold, and reports it
C3_OnlyFailuresNearNowCount ==
    (backend = "sqlite" /\ call.op = "detect_brute_force") =>
        result =
            [u \in {v \in {rows[i].user : i \in 1..Len(rows)} :
                       Cardinality(WithinWindowOfNow(v, call.window)) >= call.threshold}
                |-> Cardinality(WithinWindowOfNow(u, call.window))]

-----------------------------------------------------------------------------
(* Counting failed logins over either store                                *)

\* failures and successes of two users, and the same without a User key
CountRecords ==
    LET full == {LogEntry(e, Compact(0, 0, 0), WS01, u) :
                    e \in {"4625", "4624"}, u \in {alice, bob}}
    IN  full \cup {Without(log, "User") : log \in full}

InitCount == InitWith({"memory", "sqlite"}, {DefaultSeed})

NextCount ==
    \/ StoreLog(CountRecords, MaxCountLogs)
    \/ DbStoreLog(CountRecords, MaxCountLogs)
    \/ CountFailedLogins
    \/ DbCountFailedLogins

SpecCount == InitCount /\ [][NextCount]_vars

\* the user a record of the store in use is grouped under
\* (the records of the store in use, as <<EventID, group key, has a user>>)
StoredEvents ==
    IF backend = "memory"
    THEN [i \in 1..Len(logs) |->
            [event_id |-> get(logs[i], "EventID", "None"),
             user     |-> get(logs[i], "User", unknown),
             has_user |-> "User" \in DOMAIN logs[i]]]
    ELSE [i \in 1..Len(rows) |->
            [event_id |-> rows[i].event_id,
             user     |-> rows[i].user,
             has_user |-> rows[i].user # None]]

FailedEvents == {i \in 1..Len(StoredEvents) : StoredEvents[i].event_id = "4625"}

\* the position of the first failed login of the user
FirstSeen(user) ==
    CHOOSE i \in FailedEvents :
        /\ StoredEvents[i].user = user
        /\ \A j \in FailedEvents : StoredEvents[j].user = user => i <= j

\* C4: the sequence count_failed_logins returns (either analyser) is ordered
\* by count descending, users of equal count in first-seen order
C4_OrderedByCountThenFirstSeen ==
    call.op = "count_failed_logins" =>
        \A i, j \in 1..Len(result) :
            i < j =>
                \/ result[i][2] > result[j][2]
                \/ /\ result[i][2] = result[j][2]
                   /\ FirstSeen(result[i][1]) < FirstSeen(result[j][1])

CountsOf(pairs) == [i \in 1..Len(pairs) |-> pairs[i][2]]

-----------------------------------------------------------------------------
(* The login timeline of the in-memory analyser                            *)

\* logins, failures and logouts whose TimeCreated is well formed, in ISO
\* form, out of range (hour 24), empty or missing
TimelineRecords ==
    LET full == {LogEntry(e, t, WS01, alice) :
                    e \in {"4624", "4625", "4634"},
                    t \in {Compact(0, 0, 0), Compact(0, 1, 0), Compact(24, 0, 0),
                           Token("iso", 1, 0, 0, 0), EmptyToken}}
    IN  full \cup {Without(log, "TimeCreated") :
                      log \in {l \in full : l.TimeCreated = EmptyToken}}

InitTimeline == InitWith({"memory"}, {DefaultSeed})

NextTimeline ==
    \/ StoreLog(TimelineRecords, MaxLogs)
    \/ GetLoginTimeline

SpecTimeline == InitTimeline /\ [][NextTimeline]_vars

\* the record is a login or a failed login whose TimeCreated is present and
\* is a date and time written as YYYYMMDDTHHMMSSZ
IsTimedLogin(log) ==
    /\ "EventID" \in DOMAIN log
    /\ log.EventID \in {"4624", "4625"}
    /\ "TimeCreated" \in DOMAIN log
    /\ log.TimeCreated.fmt = "compact"
    /\ fields_in_range(log.TimeCreated)

\* C6: get_login_timeline returns exactly one entry, in record order, for
\* each success-login or failed-login record whose TimeCreated parses, at the
\* time it denotes and with outcome Success for 4624 and Failure for 4625;
\* no other record appears, with a fallback time or otherwise
C6_TimelineIsTheTimedLogins ==
    call.op = "get_login_timeline" =>
        LET timed == SelectSeq(logs, IsTimedLogin) IN
        /\ Len(result) = Len(timed)
        /\ \A i \in 1..Len(timed) :
              /\ result[i].timestamp =
                    DateTime(timed[i].TimeCreated.day, timed[i].TimeCreated.hh,
                             timed[i].TimeCreated.mm, timed[i].TimeCreated.ss)
              /\ result[i].event_type =
                    (IF timed[i].EventID = "4624" THEN "Success" ELSE "Failure")

\* a failed login with a malformed time and a logout with a well-formed one
\* precede a timed success: the timeline holds the success alone
C6_Witness ==
    /\ call.op = "get_login_timeline"
    /\ Len(logs) = 3
    /\ logs[1].EventID = "4625"
    /\ get(logs[1], "TimeCreated", NoneToken).fmt \in {"iso", "compact"}
    /\ ~IsTimedLogin(logs[1])
    /\ logs[2].EventID = "4634"
    /\ get(logs[2], "TimeCreated", NoneToken) = Compact(0, 0, 0)
    /\ logs[3].EventID = "4624" /\ IsTimedLogin(logs[3])
    /\ Len(result) = 1
    /\ result[1].event_type = "Success"

-----------------------------------------------------------------------------
(* Suspicious users, keyword-based (in-memory) and pattern-based (store)   *)

MemUserNames ==
    {admin_domain_com, backup_admin_domain_com, BACKUP_ADMIN_upper,
     Root_domain_com, user1_domain_com}
DbUserNames ==
    {Admin1, backup_admin, svc_dollar, pay_dollar_roll, system, SYSTEM_upper,
     systemd, user1}

UserRecords(names) == {LogEntry("4624", Compact(0, 0, 0), WS01, u) : u \in names}

\* the process may iterate a set of names in any order, the same all along
InitUsers ==
    \/ InitWith({"memory"}, Permutations_of(MemUserNames))
    \/ InitWith({"sqlite"}, {DefaultSeed})

NextUsers ==
    \/ StoreLog(UserRecords(MemUserNames), MaxLogs)
    \/ DbStoreLog(UserRecords(DbUserNames), MaxRows)
    \/ DetectSuspiciousUsers
    \/ DbDetectSuspiciousUsers

SpecUsers == InitUsers /\ [][NextUsers]_vars

\* the users of the records of the store in use, in record order
StoredUsers ==
    IF backend = "memory"
    THEN [i \in 1..Len(logs) |-> logs[i].User]
    ELSE [i \in 1..Len(rows) |-> rows[i].user]

\* the position of the first record of the user
FirstRecordOf(user) ==
    CHOOSE i \in 1..Len(StoredUsers) :
        /\ StoredUsers[i] = user
        /\ \A j \in 1..Len(StoredUsers) : StoredUsers[j] = user => i <= j

HasKeyword(name) ==
    \E keyword \in {<<"h","a","c","k","e","r">>, <<"a","d","m","i","n">>,
                    <<"r","o","o","t">>, <<"t","e","s","t">>,
                    <<"g","u","e","s","t">>} :
        \E i \in 1..Len(name) :
            /\ i + Len(keyword) - 1 <= Len(name)
            /\ \A k \in 1..Len(keyword) : name[i + k - 1] = keyword[k]

\* the allow-listed account backup_admin, written with or without its domain
IsBackupAdminAccount(name) ==
    lower(name) \in {backup_admin, backup_admin_domain_com}

\* C7: the keyword-based detect_suspicious_users flags a user if and only if
\* its lower-cased name contains hacker, admin, root, test or guest and it is
\* not the allow-listed backup_admin account: admin@domain.com is flagged,
\* backup_admin@domain.com never is
C7_KeywordsExceptBackupAdmin ==
    (backend = "memory" /\ call.op = "detect_suspicious_users") =>
        \A u \in Range(StoredUsers) :
            u \in Range(result) <=>
                (HasKeyword(lower(u)) /\ ~IsBackupAdminAccount(u))

EndsWithDollar(name) == Len(name) >= 1 /\ name[Len(name)] = "$"

\* C8: the pattern-based detect_suspicious_users flags a distinct user if and
\* only if, case-insensitively, the name ends in $, or contains admin, or is
\* equal to system
C8_DollarEndAdminInsideSystemEqual ==
    (backend = "sqlite" /\ call.op = "detect_suspicious_users") =>
        \A u \in Range(StoredUsers) :
            u \in Range(result) <=>
                \/ EndsWithDollar(u)
                \/ contains(admin, lower(u))
                \/ lower(u) = system

\* C9: detect_suspicious_users (either analyser) returns each flagged user
\* once, in the order in which the users are first seen in the record set
C9_FlaggedOnceInFirstSeenOrder ==
    call.op = "detect_suspicious_users" =>
        \A i, j \in 1..Len(result) :
            i < j => FirstRecordOf(result[i]) < FirstRecordOf(result[j])

-----------------------------------------------------------------------------
(* Unusual activity (in-memory analyser)                                   *)

\* logins and logouts at hours 0, 3, 4, 5 and 23, and at hour 3 in ISO form
HourRecords ==
    {LogEntry(e, t, WS01, alice) :
        e \in {"4624", "4634"},
        t \in {Compact(0, 0, 0), Compact(3, 0, 0), Compact(4, 0, 0),
               Compact(5, 0, 0), Compact(23, 0, 0), Token("iso", 1, 3, 0, 0)}}

InitHours == InitWith({"memory"}, {DefaultSeed})

NextHours ==
    \/ StoreLog(HourRecords, MaxLogs)
    \/ DetectUnusualActivity

SpecHours == InitHours /\ [][NextHours]_vars

\* the hours 0..4 at which the store holds a timed login
EarlyLoginHours ==
    {h \in 0..4 : \E i \in 1..Len(logs) :
                     IsTimedLogin(logs[i]) /\ logs[i].TimeCreated.hh = h}

IsHoursFinding(finding) == finding.kind = "unusual_hours"

\* C10: detect_unusual_activity emits an unusual-login-hours finding if and
\* only if some timeline event has its hour in 0..4; then there is exactly
\* one, naming exactly the hours in 0..4 that have an event, each once;
\* otherwise there is none, and no placeholder
C10_OneFindingNamingEarlyHours ==
    call.op = "detect_unusual_activity" =>
        LET findings == SelectSeq(result, IsHoursFinding) IN
        /\ \A i \in 1..Len(result) :
              result[i].kind \in {"unusual_hours", "multiple_computers"}
        /\ IF EarlyLoginHours = {}
           THEN Len(findings) = 0
           ELSE /\ Len(findings) = 1
                /\ Range(findings[1].hours) = EarlyLoginHours
                /\ Len(findings[1].hours) = Cardinality(EarlyLoginHours)

\* one login at hour 3, a login at hour 5 and a logout at hour 4: the one
\* finding names hour 3 only
C10_Witness ==
    /\ call.op = "detect_unusual_activity"
    /\ \E i \in 1..Len(logs) :
          logs[i].EventID = "4624" /\ logs[i].TimeCreated = Compact(5, 0, 0)
    /\ \E i \in 1..Len(logs) :
          logs[i].EventID = "4634" /\ logs[i].TimeCreated = Compact(4, 0, 0)
    /\ result = <<[kind |-> "unusual_hours", hours |-> <<3>>]>>

-----------------------------------------------------------------------------
(* Logins from several computers (in-memory analyser)                      *)

\* logins of two users from three computers, and for alice on DC01 also a
\* failed login, a logout, a login with an ISO-form time, a login without a
\* computer; and a login without a user
HostRecords ==
    {LogEntry("4624", Compact(12, 0, 0), c, u) :
        c \in {WS01, WS02, DC01}, u \in {alice, bob}}
    \cup {LogEntry("4625", Compact(12, 0, 0), DC01, alice),
          LogEntry("4634", Compact(12, 0, 0), DC01, alice),
          LogEntry("4624", Token("iso", 1, 12, 0, 0), DC01, alice),
          Without(LogEntry("4624", Compact(12, 0, 0), DC01, alice), "Computer"),
          Without(LogEntry("4624", Compact(12, 0, 0), DC01, alice), "User")}

InitHosts == InitWith({"memory"}, {DefaultSeed})

NextHosts ==
    \/ StoreLog(HostRecords, MaxHostLogs)
    \/ DetectUnusualActivity

SpecHosts == InitHosts /\ [][NextHosts]_vars

\* the computers a user has a timed login from, a login without a computer
\* counting as one from "unknown"
LoginComputersOf(user) ==
    {get(logs[i], "Computer", unknown) :
        i \in {j \in 1..Len(logs) :
                 IsTimedLogin(logs[j]) /\ get(logs[j], "User", unknown) = user}}

IsHostsFinding(finding) == finding.kind = "multiple_computers"

-----------------------------------------------------------------------------
(* Event statistics (in-memory analyser)                                   *)

\* events of two kinds, two computers and two users, and records without an
\* EventID, without a Computer, without a User, without both
StatRecords ==
    LET full == {LogEntry(e, Compact(12, 0, 0), c, u) :
                    e \in {"4624", "4625"}, c \in {WS01, WS02}, u \in {alice, bob}}
        one  == LogEntry("4624", Compact(12, 0, 0), WS01, alice)
    IN  full \cup {Without(one, "EventID"), Without(one, "Computer"),
                   Without(one, "User"),
                   Without(Without(one, "Computer"), "User")}

InitStats == InitWith({"memory"}, {DefaultSeed})

NextStats ==
    \/ StoreLog(StatRecords, MaxLogs)
    \/ GetEventStatistics
    \/ CountFailedLogins
    \/ GetLoginTimeline
    \/ DetectUnusualActivity

SpecStats == InitStats /\ [][NextStats]_vars

\* the keys of a table, and whether each occurs once
KeysOf(table) == {table[i][1] : i \in 1..Len(table)}
HasUniqueKeys(table) == Cardinality(KeysOf(table)) = Len(table)

\* the table counts every stored record once, under the record's value of
\* the field, or under `missing` when the record has no such field
CountsEachRecordOnce(table, field, missing) ==
    /\ HasUniqueKeys(table)
    /\ KeysOf(table) = {get(logs[i], field, missing) : i \in 1..Len(logs)}
    /\ \A n \in 1..Len(table) :
          table[n][2] = Cardinality({i \in 1..Len(logs) :
                                       get(logs[i], field, missing) = table[n][1]})

\* C12: get_event_statistics returns three frequency tables (by event kind,
\* by computer, by user) over all records, every record counted exactly once
\* per table, so each table's counts sum to the number of records; a record
\* without a computer (a user) is counted under "unknown" in the computer
\* (user) table
C12_EachTableCountsEveryRecord ==
    call.op = "get_event_statistics" =>
        /\ DOMAIN result = {"event_counts", "computer_activity", "user_activity"}
        /\ CountsEachRecordOnce(result.event_counts, "EventID", "None")
        /\ CountsEachRecordOnce(result.computer_activity, "Computer", unknown)
        /\ CountsEachRecordOnce(result.user_activity, "User", unknown)
        /\ SumSeq(CountsOf(result.event_counts)) = Len(logs)
        /\ SumSeq(CountsOf(result.computer_activity)) = Len(logs)
        /\ SumSeq(CountsOf(result.user_activity)) = Len(logs)

\* three records, one without a computer and one without a user: both are
\* counted under "unknown"
C12_Witness ==
    /\ call.op = "get_event_statistics"
    /\ Len(logs) = 3
    /\ \E i \in 1..Len(logs) : DOMAIN logs[i] = {"EventID", "TimeCreated", "User"}
    /\ \E i \in 1..Len(logs) : DOMAIN logs[i] = {"EventID", "TimeCreated", "Computer"}
    /\ lookup(result.computer_activity, unknown, 0) = 1
    /\ lookup(result.user_activity, unknown, 0) = 1

\* the operations of the analyser that only read the record set
DetectionOps ==
    {"get_event_statistics", "count_failed_logins", "get_login_timeline",
     "detect_unusual_activity"}

\* the three tables held in result are the counts over the records now stored
StatisticsAreOfTheRecordSet ==
    /\ CountsEachRecordOnce(result.event_counts, "EventID", "None")
    /\ CountsEachRecordOnce(result.computer_activity, "Computer", unknown)
    /\ CountsEachRecordOnce(result.user_activity, "User", unknown)

\* C13: a detection call does not change the record set, the result of
\* get_event_statistics is determined by the record set at the call (so it
\* reflects every insert made before it), and a call of get_event_statistics
\* right after another, with no insert between them, returns the same result
C13_StatisticsFollowTheRecordSet ==
    [][/\ (call'.op \in DetectionOps => logs' = logs)
       /\ (call'.op = "get_event_statistics" => StatisticsAreOfTheRecordSet')
       /\ (call.op = "get_event_statistics" /\ call'.op = "get_event_statistics"
              => result' = result)]_vars

\* statistics taken after a second insert: the user of the record inserted
\* last, seen in no earlier record, is in the user table
C13_Witness ==
    /\ call.op = "get_event_statistics"
    /\ Len(logs) = 2
    /\ get(logs[1], "User", unknown) = alice
    /\ get(logs[2], "User", unknown) = bob
    /\ result.user_activity = <<<<alice, 1>>, <<bob, 1>>>>

-----------------------------------------------------------------------------
(* Formatting a line and parsing it back                                   *)

\* the instants, computers and users events are formatted with: instants on
\* and off a whole second, names with and without a space, and no name given
FormatTimestamps ==
    {DateTime(1, 12, 0, 0), DateTime(1, 0, 0, 0), DateTime(1, 23, 59, 59),
     replace_microsecond(DateTime(1, 12, 0, 0), 500000)}
FormatEventTypes == {"4624", "4625", "4634", "4672"}
FormatComputers == {WS01, DC01, WS_space_01, None}
FormatUsers == {alice, user1_domain_com, John_space_Doe, None}
RandomChoices ==
    [computer : {WS02}, user : {admin_domain_com},
     logon_type : {<<"2">>, <<"1","0">>},
     reason : {failure_0xC000006D, failure_0xC000006A}]

\* an event is formatted by generate_realistic_log and the line parsed by
\* one of the two parsers
FormatAndParse(parser) ==
    \E timestamp \in FormatTimestamps, event_type \in FormatEventTypes,
       computer \in FormatComputers, user \in FormatUsers, rnd \in RandomChoices,
       max_str_digits \in IntMaxStrDigits :
        LET line == generate_realistic_log(timestamp, event_type, computer, user, rnd) IN
        /\ call' = [op |-> "format_and_parse", parser |-> parser,
                    timestamp |-> timestamp, event_type |-> event_type,
                    computer |-> computer, user |-> user, line |-> line]
        /\ result' = IF parser = "token" THEN parse_line(line)
                                         ELSE pattern_parse_line(line, max_str_digits)
        /\ UNCHANGED <<backend, logs, rows, log_history, now, hashseed,
                        splunk, stdout, hec_calls, pc, handles>>

TokenRoundTrip == FormatAndParse("token")
PatternRoundTrip == FormatAndParse("pattern")

InitRoundTrip == InitWith({"memory"}, {DefaultSeed})

\* neither the formatter nor a parser keeps anything from one call to the
\* next: a behaviour is one line formatted and parsed
NextRoundTrip ==
    \/ call.op = "init" /\ TokenRoundTrip
    \/ call.op = "init" /\ PatternRoundTrip

SpecRoundTrip == InitRoundTrip /\ [][NextRoundTrip]_vars

\* the fields read back from the parsed record equal the arguments the line
\* was formatted from: the token parser's record holds strings, its
\* TimeCreated read with strptime as get_login_timeline reads it; the
\* pattern parser's record holds the event code as a number
FieldsReadBackAreTheOriginals ==
    /\ ~IsUnparseable(result)
    /\ IF call.parser = "token"
       THEN /\ {"EventID", "TimeCreated", "Computer", "User"} \subseteq DOMAIN result
            /\ result["EventID"] = call.event_type
            /\ result["Computer"] = call.computer
            /\ result["User"] = call.user
            /\ strptime(result["TimeCreated"]) = call.timestamp
       ELSE /\ result.event_id = int(call.event_type)
            /\ result.computer = call.computer
            /\ result.user = call.user
            /\ result.timestamp = call.timestamp

HasSpace(s) == \E i \in 1..Len(s) : s[i] = " "

-----------------------------------------------------------------------------
(* Parsing lines of any shape                                              *)

MaxLineWords == 4     \* words in a line handed to a parser

\* the words lines are made of
LineWords ==
    {KeyValue("EventID", "4624"), KeyValue("EventID", "46x5"),
     KeyValue("EventID", nines_4301),
     KeyValue("TimeCreated", Compact(12, 0, 0)),
     KeyValue("TimeCreated", Token("iso", 1, 12, 0, 0)),
     KeyValue("Computer", WS01),
     KeyValue("User", alice), KeyValue("User", <<>>),
     Word(<<"x">>)}

\* the sequences of at most n elements of S
RECURSIVE SeqsUpTo(_, _)
SeqsUpTo(S, n) ==
    IF n = 0 THEN {<<>>}
    ELSE LET shorter == SeqsUpTo(S, n - 1) IN
         shorter \cup {Append(q, x) : q \in shorter, x \in S}

Lines(max_words) ==
    {Line(leading_space, words) :
        leading_space \in BOOLEAN, words \in SeqsUpTo(LineWords, max_words)}

\* a call of app.py's LogParser.parse_line
ParseLine(lines) ==
    \E line \in lines :
        /\ call' = [op |-> "parse_line", parser |-> "token", line |-> line]
        /\ result' = parse_line(line)
        /\ UNCHANGED <<backend, logs, rows, log_history, now, hashseed,
                        splunk, stdout, hec_calls, pc, handles>>

\* a call of logparser.py's LogParser.parse_line
PatternParseLine(lines) ==
    \E line \in lines, max_str_digits \in IntMaxStrDigits :
        /\ call' = [op |-> "parse_line", parser |-> "pattern", line |-> line]
        /\ result' = pattern_parse_line(line, max_str_digits)
        /\ UNCHANGED <<backend, logs, rows, log_history, now, hashseed,
                        splunk, stdout, hec_calls, pc, handles>>

InitParse == InitWith({"memory"}, {DefaultSeed})

\* a parser keeps nothing from one call to the next: a behaviour is one call
NextParse ==
    \/ call.op = "init" /\ ParseLine(Lines(MaxLineWords))
    \/ call.op = "init" /\ PatternParseLine(Lines(MaxLineWords))

SpecParse == InitParse /\ [][NextParse]_vars

\* the key=value words of a line
PairsOf(line) == {i \in 1..Len(line.words) : has_equals(line.words[i])}

\* the line begins, at its first character, with the four fields
\*   EventID=<digits> TimeCreated=<token> Computer=<token> User=<token>
IsEventLine(line) ==
    LET w == line.words
        Field(i, key) == has_equals(w[i]) /\ w[i].key = key /\ ~is_empty_value(w[i])
    IN  /\ ~line.leading_space
        /\ Len(w) >= 4
        /\ Field(1, "EventID") /\ is_digits(w[1].value)
        /\ Field(2, "TimeCreated") /\ Field(3, "Computer") /\ Field(4, "User")

\* C15: the token-form parse_line returns Unparseable if and only if the
\* line has no key=value word, and otherwise a record holding every
\* key=value word of the line; the field-form parse_line returns Unparseable
\* if and only if the line is not of the form EventID=<digits>
\* TimeCreated=<token> Computer=<token> User=<token>; neither raises
C15_UnparseableExactlyWhenStatedAndNoRaise ==
    call.op = "parse_line" =>
        /\ ~IsException(result)
        /\ call.parser = "token" =>
              /\ IsUnparseable(result) <=> PairsOf(call.line) = {}
              /\ ~IsUnparseable(result) =>
                    \A i \in PairsOf(call.line) :
                        /\ call.line.words[i].key \in DOMAIN result
                        /\ result[call.line.words[i].key] = call.line.words[i].value
        /\ call.parser = "pattern" =>
              (IsUnparseable(result) <=> ~IsEventLine(call.line))

-----------------------------------------------------------------------------
(* Timestamps that are not in the wire format                              *)

\* lines of the four fields whose TimeCreated is well formed, in ISO form,
\* or has an hour of 24
TimestampLines ==
    {Line(FALSE, <<KeyValue("EventID", "4624"), KeyValue("TimeCreated", t),
                   KeyValue("Computer", WS01), KeyValue("User", alice)>>) :
        t \in {Compact(12, 0, 0), Token("iso", 1, 12, 0, 0), Compact(24, 0, 0)}}

InitTimestamps == InitWith({"sqlite"}, {DefaultSeed})

NextTimestamps ==
    \/ PatternParseLine(TimestampLines)
    \/ DbStoreLog(TimelineRecords, MaxRows)
    \/ Tick

SpecTimestamps == InitTimestamps /\ [][NextTimestamps]_vars

\* the token is not a time in the format YYYYMMDDTHHMMSSZ
NotInWireFormat(time_str) == IsException(strptime(time_str))

\* C16: when the TimeCreated token of an otherwise matching line is not in
\* the format YYYYMMDDTHHMMSSZ, the record is still produced and its
\* timestamp is the wall-clock time of the parse, never the raw string and
\* never absent; for the field-form parser and for the store's timestamp
\* normalisation
C16_MalformedTimeFallsBackToNow ==
    /\ (/\ call.op = "parse_line" /\ call.parser = "pattern"
        /\ IsEventLine(call.line)
        /\ NotInWireFormat(call.line.words[2].value))
          => /\ ~IsUnparseable(result)
             /\ result.timestamp = now
    /\ (/\ call.op = "store_log" /\ ~IsException(result)
        /\ NotInWireFormat(get(rows[Len(rows)].raw_text[1], "TimeCreated", NoneToken)))
          => /\ result.timestamp = isoformat(now)
             /\ rows[Len(rows)].timestamp = isoformat(now)

-----------------------------------------------------------------------------
(* Lines parsed and handed to the SQLite store                             *)

\* the four fields followed by up to two more words: a schema key, two keys
\* outside the schema, a word without '='
ExtraWords ==
    {KeyValue("LogonType", <<"3">>), KeyValue("AuthPackage", Kerberos),
     KeyValue("FailureReason", failure_0xC000006A), Word(<<"x">>)}
IngestLines ==
    {Line(FALSE, <<KeyValue("EventID", "4624"), KeyValue("TimeCreated", t),
                   KeyValue("Computer", WS01), KeyValue("User", alice)>> \o extra) :
        t \in {Compact(12, 0, 0), Token("iso", 1, 12, 0, 0)},
        extra \in SeqsUpTo(ExtraWords, 2)}

\* a line parsed by app.py's parser and the record handed to store_log
IngestLine(lines, max) ==
    /\ backend = "sqlite"
    /\ Len(rows) < max
    /\ \E line \in lines :
          LET parsed == parse_line(line) IN
          IF IsUnparseable(parsed)
          THEN /\ call' = [op |-> "ingest_line", parser |-> "token", line |-> line]
               /\ result' = parsed
               /\ UNCHANGED <<rows, log_history>>
          ELSE DbStore(parsed, [op |-> "ingest_line", parser |-> "token", line |-> line])
    /\ UNCHANGED <<backend, logs, now, hashseed,
                    splunk, stdout, hec_calls, pc, handles>>

\* a line parsed by logparser.py's parser and the record handed to store_log
PatternIngestLine(lines, max) ==
    /\ backend = "sqlite"
    /\ Len(rows) < max
    /\ \E line \in lines, max_str_digits \in IntMaxStrDigits :
          LET parsed == pattern_parse_line(line, max_str_digits) IN
          IF IsUnparseable(parsed) \/ IsException(parsed)
          THEN /\ call' = [op |-> "ingest_line", parser |-> "pattern", line |-> line]
               /\ result' = parsed
               /\ UNCHANGED <<rows, log_history>>
          ELSE DbStore(parsed, [op |-> "ingest_line", parser |-> "pattern", line |-> line])
    /\ UNCHANGED <<backend, logs, now, hashseed,
                    splunk, stdout, hec_calls, pc, handles>>

InitIngest == InitWith({"sqlite"}, {DefaultSeed})

NextIngest ==
    \/ IngestLine(IngestLines, MaxRows)
    \/ PatternIngestLine(IngestLines, MaxRows)

SpecIngest == InitIngest /\ [][NextIngest]_vars

\* the key=value words of the line whose key is outside the schema
ExtraPairsOf(line) ==
    {i \in PairsOf(line) : line.words[i].key \notin standard_fields}

\* C17: for every ingested line, each key outside {EventID, TimeCreated,
\* Computer, User, LogonType, SourceIP, Status} is, with its value, in the
\* stored record's additional fields, no schema key is there, and no extra
\* key of the line is lost between parsing and storage
C17_ExtraKeysReachAdditionalFields ==
    call.op = "ingest_line" =>
        /\ ~IsException(result)
        /\ ~IsUnparseable(result)
        /\ rows # <<>>
        /\ rows[Len(rows)].id = result.id
        /\ LET additional_info == rows[Len(rows)].additional_info IN
           /\ DOMAIN additional_info \cap standard_fields = {}
           /\ \A i \in ExtraPairsOf(call.line) :
                 /\ call.line.words[i].key \in DOMAIN additional_info
                 /\ additional_info[call.line.words[i].key] = call.line.words[i].value

-----------------------------------------------------------------------------
(* Files read into the in-memory store                                     *)

\* a blank line, a line of spaces, a line without '=', two event lines, one
\* of them indented, and a line of one key=value word
FileLines ==
    {Line(FALSE, <<>>), Line(TRUE, <<>>), Line(FALSE, <<Word(<<"x">>)>>),
     Line(FALSE, <<KeyValue("EventID", "4624"), KeyValue("TimeCreated", Compact(12, 0, 0)),
                   KeyValue("Computer", WS01), KeyValue("User", alice)>>),
     Line(TRUE, <<KeyValue("EventID", "4625"), KeyValue("TimeCreated", Compact(12, 0, 0)),
                  KeyValue("Computer", WS01), KeyValue("User", bob)>>),
     Line(FALSE, <<KeyValue("User", alice)>>)}

\* the value of a call whose run ended: None, or the exception it raised
outcome(run) ==
    IF run.raised = "None" THEN [returned |-> "None"] ELSE [exc |-> run.raised]

\* app.py process_log_file(file_path, storage, splunk) on the in-memory store
ProcessLogFile(lines, max) ==
    /\ backend = "memory"
    /\ \E f \in SeqsUpTo(lines, max) :
          /\ Len(logs) + Len(f) <= max
          /\ LET run == process_log_file_loop(f, 1,
                             Run(logs, splunk, stdout, hec_calls))
             IN  /\ logs' = run.stored
                 /\ splunk' = run.splunk
                 /\ stdout' = run.stdout
                 /\ hec_calls' = run.hec_calls
                 /\ result' = outcome(run)
          /\ call' = [op |-> "process_log_file", file |-> f]
    /\ UNCHANGED <<backend, rows, log_history, now, hashseed, pc, handles>>

InitFiles == InitWith({"memory"}, {DefaultSeed})

NextFiles ==
    \/ ProcessLogFile(FileLines, MaxLogs)
    \/ GetEventStatistics

SpecFiles == InitFiles /\ [][NextFiles]_vars

\* the parser accepts the line: it is not blank and has a key=value word
IsAcceptedLine(line) == PairsOf(line) # {}

\* the records of the accepted lines of a file, in file order
AcceptedRecordsOf(f) ==
    LET accepted == SelectSeq(f, IsAcceptedLine)
    IN  [i \in 1..Len(accepted) |-> parse_line(accepted[i])]

\* C18: process_log_file adds to the store exactly one record per non-blank
\* line the parser accepts, in file order; a line reported Unparseable
\* creates no record and does not stop the lines after it
C18_OneRecordPerAcceptedLineInOrder ==
    [][call'.op = "process_log_file" =>
          logs' = logs \o AcceptedRecordsOf(call'.file)]_vars

\* a file of an event line, a line without '=' and an indented event line:
\* the store holds the two records, in that order
C18_Witness ==
    /\ call.op = "process_log_file"
    /\ Len(call.file) = 3
    /\ ~IsAcceptedLine(call.file[2]) /\ call.file[2].words # <<>>
    /\ Len(logs) = 2
    /\ logs[1]["User"] = alice /\ logs[2]["User"] = bob

-----------------------------------------------------------------------------
(* Records of the SQLite store: identifiers and analysis                   *)

\* a login, a failed login and a record without EventID
StoreRecords ==
    {LogEntry("4624", Compact(12, 0, 0), WS01, alice),
     LogEntry("4625", Compact(12, 0, 0), WS01, bob),
     Without(LogEntry("4624", Compact(12, 0, 0), WS01, alice), "EventID")}

\* the analysis results attached, and the ids asked for
Analyses == {[brute_force |-> TRUE], [brute_force |-> FALSE]}
LogIds == 1..(MaxRows + 1)

InitStore == InitWith({"sqlite"}, {DefaultSeed})

NextStore ==
    \/ DbStoreLog(StoreRecords, MaxRows)
    \/ UpdateLogAnalysis(LogIds, Analyses)
    \/ GetLogDetails(LogIds)

SpecStore == InitStore /\ [][NextStore]_vars

\* no two stored records have the same id
IdsAreUnique ==
    \A i, j \in 1..Len(rows) : rows[i].id = rows[j].id => i = j

\* store_log has just returned the id under which get_log_details finds
\* the record it stored
ReturnedIdFindsTheRecord ==
    LET found == get_log_details(rows, result.id) IN
    /\ found # NoDetails
    /\ found = rows[Len(rows)]
    /\ found.event_id = result.event_id /\ found.user = result.user

\* C19: after any sequence of store_log and update_log_analysis calls every
\* stored record has an id that was given at its insertion, never changes
\* afterwards and differs from the id of every other stored record; the id
\* store_log returns is the one get_log_details finds the record under
C19_IdsGivenOnceUniqueAndReturned ==
    [][/\ \A i \in 1..Len(rows) :
             i <= Len(rows') /\ rows'[i].id = rows[i].id
       /\ IdsAreUnique'
       /\ (call'.op = "store_log" /\ ~IsException(result')) =>
             /\ Len(rows') = Len(rows) + 1
             /\ \A i \in 1..Len(rows) : rows[i].id # result'.id
             /\ ReturnedIdFindsTheRecord']_vars

\* a second record stored after the first was analysed: it is found under
\* the id returned, 2, and the first is still under 1
C19_Witness ==
    /\ call.op = "store_log" /\ ~IsException(result)
    /\ Len(rows) = 2
    /\ rows[1].processed /\ rows[1].id = 1
    /\ result.id = 2
    /\ get_log_details(rows, 2) = rows[2]

\* C20: a stored record's analysis is attached at most once: once
\* update_log_analysis has attached results to a record, no later call
\* changes that record's analysis again; and no operation of the store
\* removes a record (the set of stored ids never shrinks)
C20_AnalysisAttachedOnceAndNoRecordRemoved ==
    [][/\ \A i \in 1..Len(rows) :
             rows[i].processed =>
                /\ i <= Len(rows')
                /\ rows'[i].analysis_results = rows[i].analysis_results
       /\ {rows[i].id : i \in 1..Len(rows)} \subseteq {rows'[i].id : i \in 1..Len(rows')}]_vars

-----------------------------------------------------------------------------
(* Passes of the core with an alert sink                                   *)

MaxSends == 2

\* no sink, the sink of app.py as built and with enabled set, and the sink
\* of splunk.py: disabled, enabled with the connection refused, connected
\* and answering, connected and failing
Sinks ==
    {NoSplunk, AppSplunkIntegration, enable(AppSplunkIntegration),
     HecSplunkIntegration(FALSE, "None"), HecSplunkIntegration(TRUE, "None"),
     HecSplunkIntegration(TRUE, "up"), HecSplunkIntegration(TRUE, "down")}

\* a failed login of bob (three of them are a brute-force finding), a login
\* of admin (a suspicious user) and a line without '='
SinkLines ==
    {Line(FALSE, <<KeyValue("EventID", "4625"), KeyValue("TimeCreated", Compact(12, 0, 0)),
                   KeyValue("Computer", WS01), KeyValue("User", bob)>>),
     Line(FALSE, <<KeyValue("EventID", "4624"), KeyValue("TimeCreated", Compact(12, 0, 0)),
                   KeyValue("Computer", WS01), KeyValue("User", admin)>>),
     Line(FALSE, <<Word(<<"x">>)>>)}

SinkEvents ==
    {[event |-> [account |-> admin], severity |-> "medium", type |-> "suspicious_user"],
     [event |-> [account |-> bob], severity |-> "medium", type |-> "suspicious_user"]}

\* app.py generate_alerts(analyser, splunk), once in a pass
GenerateAlerts ==
    /\ backend = "memory"
    /\ \A i \in 1..Len(stdout) : stdout[i].by # "generate_alerts"
    /\ LET run == generate_alerts(get_logs, hashseed,
                                  Run(logs, splunk, stdout, hec_calls))
       IN  /\ splunk' = run.splunk
           /\ stdout' = run.stdout
           /\ hec_calls' = run.hec_calls
           /\ result' = outcome(run)
    /\ call' = [op |-> "generate_alerts"]
    /\ UNCHANGED <<backend, logs, rows, log_history, now, hashseed, pc, handles>>

\* splunk.send_to_hec(data), called on the sink itself
SendToHec(events, max) ==
    /\ splunk.class # "NoneType"
    /\ Len(hec_calls) < max
    /\ \E data \in events :
          LET sent == send_to_hec(splunk, data)
          IN  /\ splunk' = sent.splunk
              /\ stdout' = stdout \o sent.printed
              /\ hec_calls' = Append(hec_calls, data)
              /\ call' = [op |-> "send_to_hec", data |-> data]
              /\ result' = [returned |-> sent.returned]
    /\ UNCHANGED <<backend, logs, rows, log_history, now, hashseed, pc, handles>>

InitSink ==
    /\ backend = "memory"
    /\ logs = <<>>
    /\ rows = <<>>
    /\ log_history = <<>>
    /\ now = ClockStart
    /\ hashseed = <<admin, bob>>
    /\ splunk \in Sinks
    /\ stdout = <<>>
    /\ hec_calls = <<>>
    /\ pc = "idle"
    /\ handles = {}
    /\ call = [op |-> "init"]
    /\ result = "None"

NextSink ==
    \/ ProcessLogFile(SinkLines, MaxLogs)
    \/ GenerateAlerts
    \/ SendToHec(SinkEvents, MaxSends)

SpecSink == InitSink /\ [][NextSink]_vars

\* the alerts generate_alerts has printed
AlertsPrinted(printed) ==
    LET is_alert(line) == line.by = "generate_alerts"
    IN  SelectSeq(printed, is_alert)

\* the sink is absent or switched off
IsDisabledSink(sink) ==
    \/ sink.class = "NoneType"
    \/ sink.class = "app.SplunkIntegration" /\ ~sink.enabled
    \/ sink.class = "splunk.SplunkIntegration" /\ ~sink.config.enabled

\* C21: whatever the sink (absent, disabled, enabled and unreachable),
\* generate_alerts prints the alerts it prints without a sink and
\* process_log_file stores the records it stores without a sink, neither
\* raises, and with a disabled sink no event is handed to send_to_hec
C21_SinkNeverAffectsDetection ==
    [][/\ call'.op = "generate_alerts" =>
             /\ ~IsException(result')
             /\ AlertsPrinted(stdout') =
                AlertsPrinted(generate_alerts(logs, hashseed,
                                  Run(logs, NoSplunk, <<>>, <<>>)).stdout)
       /\ call'.op = "process_log_file" =>
             /\ ~IsException(result')
             /\ logs' = process_log_file_loop(call'.file, 1,
                            Run(logs, NoSplunk, <<>>, <<>>)).stored
       /\ (call'.op \in {"generate_alerts", "process_log_file"}
           /\ IsDisabledSink(splunk)) => hec_calls' = hec_calls]_vars

\* the sink cannot take events: it is absent or switched off, or it is the
\* sink of splunk.py without a service or with one that fails
IsUnavailableSink(sink) ==
    \/ IsDisabledSink(sink)
    \/ sink.class = "app.SplunkIntegration"
    \/ sink.class = "splunk.SplunkIntegration" /\ sink.service # "up"

\* the lines the sink has printed
SinkReports(printed) ==
    LET is_report(line) == line.by = "send_to_hec"
    IN  SelectSeq(printed, is_report)

\* C22: with an unavailable or disabled sink, however many times
\* send_to_hec is called in a pass, the sink reports its condition at most
\* once, and no event is handed to it a second time: a step hands over at
\* most one event per alert printed, per record stored, or per call
C22_ReportedOnceNeverRetried ==
    [][/\ IsUnavailableSink(splunk') => Len(SinkReports(stdout')) <= 1
       /\ Len(hec_calls') - Len(hec_calls) <=
             IF call'.op = "generate_alerts"
             THEN Len(AlertsPrinted(stdout')) - Len(AlertsPrinted(stdout))
             ELSE IF call'.op = "process_log_file"
             THEN Len(logs') - Len(logs)
             ELSE 1]_vars

-----------------------------------------------------------------------------
(* A run of main(), and a `with LogStorage() as storage` block             *)

\* lines as generate_sample_logs writes them
SampleLines ==
    {Line(FALSE, <<KeyValue("EventID", "4625"), KeyValue("TimeCreated", Compact(12, 0, 0)),
                   KeyValue("Computer", WS01), KeyValue("User", bob)>>),
     Line(FALSE, <<KeyValue("EventID", "4624"), KeyValue("TimeCreated", Compact(12, 0, 0)),
                   KeyValue("Computer", WS01), KeyValue("User", admin)>>)}

\* a step of main() from one position to the next that touches neither the
\* store nor the sink
MainStep(from, to, value, open) ==
    /\ backend = "memory"
    /\ pc = from
    /\ pc' = to
    /\ handles' = open
    /\ result' = value
    /\ UNCHANGED <<backend, logs, rows, log_history, now, hashseed, splunk,
                   stdout, hec_calls, call>>

\* main, lines 565-574: the store, the analyser and the sink are built and
\* the sample logs drawn
MainStart ==
    /\ backend = "memory"
    /\ pc = "idle"
    /\ \E sample_logs \in SeqsUpTo(SampleLines, MaxLogs) :
          /\ sample_logs # <<>>
          /\ call' = [op |-> "main", sample_logs |-> sample_logs]
    /\ pc' = "started"
    /\ handles' = {"storage"}
    /\ splunk' = AppSplunkIntegration
    /\ result' = "None"
    /\ UNCHANGED <<backend, logs, rows, log_history, now, hashseed, stdout,
                   hec_calls>>

\* line 578: open(log_file_path, 'w') succeeds or raises OSError
MainOpenLogFile ==
    \/ MainStep("started", "writing", "None", handles \cup {"log_file"})
    \/ MainStep("started", "raised", "None", handles)

\* line 579 and the end of the with block: the write succeeds or raises,
\* and the file is closed either way
MainWriteLogFile ==
    \/ MainStep("writing", "written", "None", handles \ {"log_file"})
    \/ MainStep("writing", "raised", "None", handles \ {"log_file"})

\* process_log_file, line 508: open(file_path, 'r')
MainOpenForRead ==
    \/ MainStep("written", "reading", "None", handles \cup {"log_file"})
    \/ MainStep("written", "raised", "None", handles)

\* process_log_file, lines 509-516 and the end of its with block
MainProcessLogFile ==
    /\ backend = "memory"
    /\ pc = "reading"
    /\ LET run == process_log_file_loop(call.sample_logs, 1,
                      Run(logs, splunk, stdout, hec_calls))
       IN  /\ logs' = run.stored
           /\ splunk' = run.splunk
           /\ stdout' = run.stdout
           /\ hec_calls' = run.hec_calls
           /\ result' = outcome(run)
           /\ pc' = IF run.raised = "None" THEN "processed" ELSE "raised"
    /\ handles' = handles \ {"log_file"}
    /\ UNCHANGED <<backend, rows, log_history, now, hashseed, call>>

\* lines 590-599: the failed logins and the suspicious users are printed
MainAnalyse ==
    MainStep("processed", "analysed",
             [failed_logins |-> count_failed_logins(get_logs),
              suspicious |-> detect_suspicious_users(get_logs, hashseed)],
             handles)

\* line 602: generate_alerts(analyser, splunk)
MainGenerateAlerts ==
    /\ backend = "memory"
    /\ pc = "analysed"
    /\ LET run == generate_alerts(get_logs, hashseed,
                                  Run(logs, splunk, stdout, hec_calls))
       IN  /\ splunk' = run.splunk
           /\ stdout' = run.stdout
           /\ hec_calls' = run.hec_calls
           /\ result' = outcome(run)
           /\ pc' = IF run.raised = "None" THEN "alerted" ELSE "raised"
    /\ UNCHANGED <<backend, logs, rows, log_history, now, hashseed, handles,
                   call>>

\* lines 605-617: the statistics are printed
MainStatistics ==
    MainStep("alerted", "counted", get_event_statistics(get_logs), handles)

\* lines 621-625: the five charts are drawn and saved; plt.savefig writes a
\* file and may raise OSError
MainPlot ==
    \/ MainStep("counted", "plotted", "None", handles)
    \/ MainStep("counted", "raised", "None", handles)

\* line 630: storage.close()
MainClose == MainStep("plotted", "closed", "None", handles \ {"storage"})

\* line 631: os.remove(log_file_path) succeeds or raises OSError
MainRemove ==
    \/ MainStep("closed", "returned", "None", handles)
    \/ MainStep("closed", "raised", "None", handles)

\* logstorage.py: `with LogStorage() as storage:` entered, the connection open
WithEnter ==
    /\ backend = "sqlite"
    /\ pc = "idle"
    /\ pc' = "with_body"
    /\ handles' = {"conn"}
    /\ call' = [op |-> "__enter__"]
    /\ result' = "None"
    /\ UNCHANGED <<backend, logs, rows, log_history, now, hashseed, splunk,
                   stdout, hec_calls>>

\* storage.store_log(log) inside the block; an exception leaves the block
WithStoreLog(entries, max) ==
    /\ backend = "sqlite"
    /\ pc = "with_body"
    /\ Len(rows) < max
    /\ \E log_data \in entries : DbStore(log_data, [op |-> "store_log"])
    /\ pc' = IF IsException(result') THEN "with_raising" ELSE "with_body"
    /\ UNCHANGED <<backend, logs, now, hashseed, splunk, stdout, hec_calls,
                   handles>>

\* LogStorage.__exit__ -> close(): the connection is closed and log_history
\* cleared, at the end of the block or when an exception leaves it
WithExit ==
    /\ backend = "sqlite"
    /\ pc \in {"with_body", "with_raising"}
    /\ pc' = IF pc = "with_body" THEN "returned" ELSE "raised"
    /\ handles' = handles \ {"conn"}
    /\ log_history' = <<>>
    /\ call' = [op |-> "__exit__"]
    /\ UNCHANGED <<backend, logs, rows, now, hashseed, splunk, stdout,
                   hec_calls, result>>

\* records for the block: two that are stored and one the INSERT rejects
WithRecords ==
    {LogEntry("4624", Compact(12, 0, 0), WS01, alice),
     LogEntry("4625", Compact(12, 0, 0), WS01, bob),
     Without(LogEntry("4624", Compact(12, 0, 0), WS01, alice), "EventID")}

InitMain == InitWith({"memory", "sqlite"}, {<<admin, bob>>})

NextMain ==
    \/ MainStart
    \/ MainOpenLogFile
    \/ MainWriteLogFile
    \/ MainOpenForRead
    \/ MainProcessLogFile
    \/ MainAnalyse
    \/ MainGenerateAlerts
    \/ MainStatistics
    \/ MainPlot
    \/ MainClose
    \/ MainRemove
    \/ WithEnter
    \/ WithStoreLog(WithRecords, MaxRows)
    \/ WithExit

SpecMain == InitMain /\ [][NextMain]_vars

\* C23: when main() has returned or an exception has left it, and when a
\* `with LogStorage()` block has been left either way, no store and no
\* file is still open
C23_HandlesReleasedOnEveryExit ==
    pc \in {"returned", "raised"} => handles = {}

-----------------------------------------------------------------------------
(* Detection over malformed records                                        *)

\* a whole failed login of bob; the same without its user, without its
\* computer, without its time, with an hour of 24; and a login of admin
MalformedRecords ==
    LET whole == LogEntry("4625", Compact(0, 0, 0), WS01, bob)
    IN  {whole, Without(whole, "User"), Without(whole, "Computer"),
         Without(whole, "TimeCreated"),
         LogEntry("4625", Compact(24, 0, 0), WS01, bob),
         LogEntry("4624", Compact(0, 0, 0), WS01, admin)}

InitMalformed == InitWith({"memory", "sqlite"}, {<<admin, bob, unknown>>})

NextMalformed ==
    \/ StoreLog(MalformedRecords, MaxLogs)
    \/ DbStoreLog(MalformedRecords, MaxRows)
    \/ CountFailedLogins
    \/ GetLoginTimeline
    \/ DetectBruteForce
    \/ DetectSuspiciousUsers
    \/ DetectUnusualActivity
    \/ GetEventStatistics
    \/ DbCountFailedLogins
    \/ DbDetectBruteForce
    \/ DbDetectSuspiciousUsers

SpecMalformed == InitMalformed /\ [][NextMalformed]_vars

\* the call ended by raising one of the exceptions of the model
HasRaised(value) ==
    ToString(value) \in
        {ToString([exc |-> name]) :
            name \in {"TypeError", "ValueError", "AttributeError", "IntegrityError"}}

\* the detection operations of both analysers
AnalyserOps ==
    {"count_failed_logins", "get_login_timeline", "detect_brute_force",
     "detect_suspicious_users", "detect_unusual_activity", "get_event_statistics"}

\* C24: over records that lack a user, a computer or a time, or carry an
\* invalid time, every detection operation of either analyser returns a
\* result and none raises; the timeline of the in-memory analyser leaves
\* out exactly the login records without a parseable time
C24_NoDetectionFailsOnMalformedRecord ==
    call.op \in AnalyserOps =>
        /\ ~HasRaised(result)
        /\ (backend = "memory" /\ call.op = "get_login_timeline") =>
               Len(result) = Cardinality({i \in 1..Len(logs) : IsTimedLogin(logs[i])})

-----------------------------------------------------------------------------
(* Failed logins with a malformed time, in either store                    *)

\* the TimeCreated the record came with passes the strict parse
HasStrictTime(log_data) ==
    /\ "TimeCreated" \in DOMAIN log_data
    /\ ~IsException(strptime(log_data.TimeCreated))

\* the failed logins of the user held in the store whose TimeCreated passed
\* the strict parse (a row keeps the record it was made from in raw_text)
WellTimedFailuresOf(user) ==
    IF backend = "memory" THEN TimedFailuresOf(user)
    ELSE {i \in 1..Len(rows) :
             /\ rows[i].event_id = "4625"
             /\ rows[i].user = user
             /\ HasStrictTime(rows[i].raw_text[1])}

\* C25: a failed login whose TimeCreated failed the strict parse never
\* counts towards a brute-force finding of either analyser: the attempts
\* reported for a flagged user are at most the user's failed logins with a
\* well-formed time, so a user with none of those is never flagged
C25_MalformedTimeNeverCountsAsFailure ==
    call.op = "detect_brute_force" =>
        \A user \in DOMAIN result :
            /\ WellTimedFailuresOf(user) # {}
            /\ result[user] <= Cardinality(WellTimedFailuresOf(user))

-----------------------------------------------------------------------------
(* The brute-force count against the failed-login count                    *)

\* C26: every user the in-memory detect_brute_force flags is listed by
\* count_failed_logins over the same records, with a count at least the
\* attempts reported; the two are equal when every failed login of the user
\* has a TimeCreated that passes the strict parse
C26_BruteForceCountWithinFailedLoginCount ==
    (backend = "memory" /\ call.op = "detect_brute_force") =>
        LET failed_logins == count_failed_logins(get_logs) IN
        \A user \in DOMAIN result :
            /\ has_key(failed_logins, user)
            /\ result[user] <= value_of(failed_logins, user)
            /\ (FailedLoginsOf(user) = TimedFailuresOf(user)) =>
                   result[user] = value_of(failed_logins, user)

\* bob is flagged with two attempts while three failed logins of his are
\* stored, one of them with a malformed time
C26_Witness ==
    /\ backend = "memory"
    /\ call.op = "detect_brute_force"
    /\ bob \in DOMAIN result
    /\ result[bob] = 2
    /\ Cardinality(FailedLoginsOf(bob)) = 3
    /\ value_of(count_failed_logins(get_logs), bob) = 3

\* log_history holds one entry per row, in the order of the rows, with the
\* row's id; an entry is processed and 'analyzed' exactly when its row is
\* processed, and then holds the row's analysis
HistoryMirrorsRows ==
    /\ Len(log_history) = Len(rows)
    /\ \A i \in 1..Len(rows) :
          /\ log_history[i].id = rows[i].id
          /\ log_history[i].processed = rows[i].processed
          /\ log_history[i].status =
                (IF rows[i].processed THEN "analyzed" ELSE "stored")
          /\ rows[i].processed =>
                log_history[i].analysis = rows[i].analysis_results

\* C27: after every store_log and update_log_analysis, log_history mirrors
\* the rows; update_log_analysis(id, analysis) marks the row and the entry
\* of that id with the analysis and changes no other row and no other entry
\* (none at all for an id no row has), and a processed row stays processed
C27_HistoryMirrorsTheStoredRecords ==
    [][/\ HistoryMirrorsRows'
       /\ \A i \in 1..Len(rows) : rows[i].processed => rows'[i].processed
       /\ call'.op = "update_log_analysis" =>
             /\ Len(rows') = Len(rows)
             /\ \A i \in 1..Len(rows) :
                   IF rows[i].id = call'.log_id
                   THEN /\ rows'[i].processed
                        /\ rows'[i].analysis_results = call'.analysis_results
                        /\ log_history'[i].analysis = call'.analysis_results
                   ELSE /\ rows'[i] = rows[i]
                        /\ log_history'[i] = log_history[i]]_vars

\* the second of two rows has just been given an analysis: it is processed
\* and its entry 'analyzed', the first row and its entry are as stored
C27_Witness ==
    /\ call.op = "update_log_analysis"
    /\ call.log_id = 2
    /\ Len(rows) = 2
    /\ rows[2].processed /\ log_history[2].status = "analyzed"
    /\ ~rows[1].processed /\ log_history[1].status = "stored"

====
